---------------------------- MODULE Spec2Model ----------------------------
(***************************************************************************)
(* A model of the setup-data importer of senaite.core                      *)
(* (src/src/senaite/core/exportimport/setupdata/__init__.py).              *)
(*                                                                         *)
(* A workbook maps sheet names to the row mappings get_rows yields for     *)
(* them (the rows after the start row, header keys applied).  An importer  *)
(* is called (WorksheetImporter.__call__), runs the body of its Import     *)
(* loop once per row of its sheet, and finishes with the passes that       *)
(* follow the loop.  The importers run in a fixed order; the deferred      *)
(* relations are resolved after the last one.                              *)
(*                                                                         *)
(* Text cells are strings; a cell the code splits or scans (a list of      *)
(* names, a formula) is the sequence of its parts.  A reference field      *)
(* holds the UID of its target, 0 when unset.                              *)
(***************************************************************************)
EXTENDS Integers, Sequences, FiniteSets, TLC

VARIABLES
    workbook,   \* sheet name -> rows of the sheet (absent name: no sheet)
    files,      \* the files that exist under the dataset directory
    rejected,   \* usernames portal_registration.addMember refuses
    portal,     \* folder name -> objects of the folder, in creation order
    deferred,   \* lsd.deferred: the worklist of deferred relations
    refs,       \* the references set by the resolution pass
    users,      \* members, group memberships, roles and local roles
    log,        \* logger output, in order
    uid,        \* number of objects created so far (source of fresh UIDs)
    raised,     \* the exception raised in the running importer, if any
    self,       \* attributes of the running importer instance
    pc,         \* position of the orchestrator in ImporterOrder
    phase,      \* "call", "rows", "resolve", "done" or "aborted"
    row_nr,     \* index of the next row to process; in get_rows, the number
                \* of the sheet row read last
    run,        \* number of the current import run
    order,      \* the sheet names of the importers, in the order of the run
    events,     \* the calls made on the collaborators (transaction, event
                \* notification, field setters), in order
    worksheet,  \* get_rows: the sheet read, a sequence of rows of cells
    startrow,   \* get_rows: the start row of the call
    headers,    \* get_rows: the header cells, once read
    yielded,    \* get_rows: the row mappings yielded so far by the call
    calls,      \* get_rows: the number of calls made on the worksheet
    installed,  \* upgrade: the installed version of the product
    invocations, \* the number of invocations (of upgrade steps, of
                \* process_form) so far
    returned,   \* upgrade: the values returned by the invocations, in order
    form,       \* process_form: the submitted form
    dependencies, \* process_form: service UID -> getServiceDependencies()
    settings,   \* process_form: the AnalysisServicesSettings of the profile
    query,      \* get_object: the arguments of the call made last
    got,        \* get_object, process_form: the value the call made last
                \* returned
    method_get  \* what obj.get(name, default) of a Method object does on
                \* the site: "field" (the value of the field of that name)
                \* or "child" (the contained object of that name, that is
                \* the default: a method contains none)

(* The variables of a call of get_rows. *)
reader == <<worksheet, startrow, headers, yielded, calls>>

(* The variables of the upgrade steps and of the profile widget. *)
aside == <<installed, invocations, returned, form, dependencies, settings,
           query, got, method_get>>

vars == <<workbook, files, rejected, portal, deferred, refs, users, log,
          uid, raised, self, pc, phase, row_nr, run, order, events, reader,
          aside>>

-----------------------------------------------------------------------------
(* Bounds of the model *)

MaxRows == 2

MaxRuns == 2

MaxFormula == 4

MaxSheetRows == 2001

MaxCalls == 2

MaxInvocations == 3

MaxSubmissions == 2

SavepointEvery == 1000

-----------------------------------------------------------------------------
(* Values *)

NoExc == [type |-> "", msg |-> ""]

Exc(type, msg) == [type |-> type, msg |-> msg]

NoObj == [portal_type |-> "None", UID |-> 0]

NoFile == <<>>

SeqsUpTo(S, n) == UNION {[1..k -> S] : k \in 0..n}

EmptyMap == [t \in {} |-> <<>>]

Folders ==
    {"bika_subgroups", "bika_labcontacts", "bika_departments", "clients",
     "contacts", "sample_containers", "bika_instrumenttypes",
     "bika_manufacturers", "bika_suppliers", "bika_instruments",
     "certifications", "multifiles", "methods", "bika_calculations",
     "bika_analysisservices", "bika_analysisprofiles",
     "bika_worksheettemplates", "invoices"}

NoUsers ==
    [members |-> {}, groups |-> {}, roles |-> {}, local_roles |-> {}]

(* The attributes of an importer instance, as __call__ finds it. *)
NoSelf ==
    [sheetname |-> "", interim_fields |-> EmptyMap,
     service_interims |-> EmptyMap, instrument_methods |-> EmptyMap,
     profile_services |-> EmptyMap, wst_services |-> EmptyMap,
     wst_layouts |-> EmptyMap]

(* The mutable state an importer works on, threaded through its code. *)
State(p, d, l, u, n, r, s, e) ==
    [portal |-> p, deferred |-> d, log |-> l, users |-> u, uid |-> n,
     raised |-> r, self |-> s, events |-> e]

(* A logger call of the importer of sheet self.sheetname. *)
Log(st, level, msg) ==
    [st EXCEPT !.log = Append(@, [level |-> level, msg |-> msg,
                                  sheet |-> st.self.sheetname])]

Raise(st, type, msg) == [st EXCEPT !.raised = Exc(type, msg)]

(* A call on a collaborator, about the object of a UID (0: about none). *)
Event(st, type, obj) ==
    [st EXCEPT !.events = Append(@, [type |-> type, obj |-> obj])]

(* _createObjectByType / api.create: a new object at the end of a folder,  *)
(* with a fresh UID.                                                       *)
createObject(st, folder, obj) ==
    Event([st EXCEPT !.portal[folder] = Append(@, obj @@ [UID |-> st.uid + 1]),
                     !.uid = @ + 1],
          "create", st.uid + 1)

(* A later field assignment on the object (a setter, fill_contactfields,   *)
(* fill_addressfields); the value assigned is in the object as created.    *)
edit(st, obj) == Event(st, "edit", obj)

fill_contactfields(st, obj) == edit(st, obj)

fill_addressfields(st, obj) == edit(st, obj)

(* notify(ObjectInitializedEvent(obj)) *)
notify(st, obj) == Event(st, "notify", obj)

(* The object created last in a folder (obj, right after its creation).    *)
Last(st, folder) == st.portal[folder][Len(st.portal[folder])]

-----------------------------------------------------------------------------
(* getobj and the attribute access it relies on *)

(* "{Firstname} {Surname}".strip(): the two names, compared as a pair. *)
Fullname(first, last) == <<first, last>>

HasAttr(item, k) ==
    \/ k \in DOMAIN item
    \/ k = "Title" /\ ("title" \in DOMAIN item \/ "Name" \in DOMAIN item)
    \/ k = "getName" /\ "Name" \in DOMAIN item
    \/ k = "getKeyword" /\ "Keyword" \in DOMAIN item
    \/ k = "getUsername" /\ "Username" \in DOMAIN item
    \/ k = "getFullname" /\ "Firstname" \in DOMAIN item

(* getattr(item, k), called when callable: an Archetypes accessor (Title,  *)
(* getName, ...) returns the stored field, a plain name the attribute.     *)
Attr(item, k) ==
    CASE k \in DOMAIN item -> item[k]
      [] k = "Title" /\ "title" \in DOMAIN item -> item.title
      [] k = "Title" /\ "Name" \in DOMAIN item -> item.Name
      [] k = "getName" -> item.Name
      [] k = "getKeyword" -> item.Keyword
      [] k = "getUsername" -> item.Username
      [] k = "getFullname" -> Fullname(item.Firstname, item.Surname)

getobj_finds_nothing(items, portal_type, k, v) ==
    NoObj

(* getobj(folder, portal_type, k=v): the first item of the folder of that  *)
(* portal type whose attribute k equals v, None when there is none.        *)
getobj(items, portal_type, k, v) ==
    LET hits == {i \in 1..Len(items) :
                    /\ items[i].portal_type = portal_type
                    /\ HasAttr(items[i], k)
                    /\ Attr(items[i], k) = v}
    IN IF hits = {} THEN NoObj
       ELSE items[CHOOSE i \in hits : \A j \in hits : i <= j]

Found(obj) == obj.UID # 0

(* The children of a folderish object (a client's contacts, ...). *)
ChildrenOf(items, parent) == SelectSeq(items, LAMBDA o : o.parent = parent)

-----------------------------------------------------------------------------
(* WorksheetImporter.defer *)

defer_first(d, rec) == <<rec>> \o d

defer(d, rec) == Append(d, rec)

Defer(st, src_obj, src_field, dest_catalog, dest_query) ==
    [st EXCEPT !.deferred =
        defer(@, [src_obj |-> src_obj, src_field |-> src_field,
                  dest_catalog |-> dest_catalog, dest_query |-> dest_query])]

-----------------------------------------------------------------------------
(* read_file and get_file_data *)

allowed_ext ==
    <<"pdf", "jpg", "jpeg", "png", "gif", "ods", "odt", "xlsx", "doc",
      "docx", "xls", "csv", "txt",
      "PDF", "JPG", "JPEG", "PNG", "GIF", "ODS", "ODT", "XLSX", "DOC",
      "DOCX", "XLS", "CSV", "TXT">>

(* The file read_file opens for a path: the path itself, else the first    *)
(* path.<ext> that exists; NoFile when it raises IOError.                  *)
read_file(fs, path) ==
    IF <<path, "">> \in fs THEN <<path, "">>
    ELSE LET hits == {i \in 1..Len(allowed_ext) :
                        <<path, allowed_ext[i]>> \in fs}
         IN IF hits = {} THEN NoFile
            ELSE <<path, allowed_ext[CHOOSE i \in hits :
                                        \A j \in hits : i <= j]>>

(* get_file_data: the file of that exact name, None when it cannot be      *)
(* opened or no name is given.                                             *)
get_file_data(fs, filename) ==
    IF filename # "" /\ <<filename, "">> \in fs THEN <<filename, "">>
    ELSE NoFile

-----------------------------------------------------------------------------
(* Sub_Groups *)

Sub_Groups_row_unchecked(st, row) ==
    IF Found(getobj(st.portal["bika_subgroups"], "SubGroup", "Title",
                    row.title)) THEN st
    ELSE notify(createObject(st, "bika_subgroups",
                    [portal_type |-> "SubGroup", title |-> row.title,
                     description |-> row.description,
                     SortKey |-> row.SortKey]),
                st.uid + 1)

Sub_Groups_row(st, row) ==
    IF row.title = "" THEN st
    ELSE IF Found(getobj(st.portal["bika_subgroups"], "SubGroup", "Title",
                         row.title)) THEN st
    ELSE notify(createObject(st, "bika_subgroups",
                    [portal_type |-> "SubGroup", title |-> row.title,
                     description |-> row.description,
                     SortKey |-> row.SortKey]),
                st.uid + 1)

-----------------------------------------------------------------------------
(* Clients *)

Clients_row(st, row) ==
    IF row.Name = "" THEN st
    ELSE IF Found(getobj(st.portal["clients"], "Client", "Name", row.Name))
    THEN st
    ELSE IF row.Name = "" THEN Log(st, "warning", "Client has no Name")
    ELSE IF row.ClientID = ""
    THEN Log(st, "warning", "Client has no Client ID")
    ELSE LET s1 == createObject(st, "clients",
                    [portal_type |-> "Client", Name |-> row.Name,
                     ClientID |-> row.ClientID,
                     MemberDiscountApplies |->
                        (row.MemberDiscountApplies # ""),
                     BulkDiscount |-> (row.BulkDiscount # ""),
                     EmailAddress |-> row.EmailAddress])
             obj == Last(s1, "clients").UID
         IN notify(fill_addressfields(fill_contactfields(s1, obj), obj), obj)

-----------------------------------------------------------------------------
(* The catalogs and get_object *)

RECURSIVE Concat(_, _)
Concat(f, names) ==
    IF names = {} THEN <<>>
    ELSE LET n == CHOOSE x \in names : TRUE
         IN f[n] \o Concat(f, names \ {n})

(* Every object of the site, folder by folder. *)
AllObjects(p) == Concat(p, DOMAIN p)

(* catalog(portal_type=..., k=v): the objects of that portal type whose    *)
(* indexed value k is v.                                                   *)
catalog(p, portal_type, k, v) ==
    SelectSeq(AllObjects(p),
              LAMBDA o : /\ o.portal_type = portal_type
                         /\ HasAttr(o, k)
                         /\ Attr(o, k) = v)

(* catalog(contentFilter): the objects of that portal type that have the   *)
(* title, when one is given, and every indexed value of kwargs.            *)
contentFilter(p, portal_type, title, kwargs) ==
    SelectSeq(AllObjects(p),
              LAMBDA o : /\ o.portal_type = portal_type
                         /\ title # "" => /\ HasAttr(o, "Title")
                                          /\ Attr(o, "Title") = title
                         /\ \A k \in DOMAIN kwargs :
                                /\ HasAttr(o, k)
                                /\ Attr(o, k) = kwargs[k])

(* get_object without the keyword fallback of an AnalysisService. *)
get_object_exactly_one(p, portal_type, title, kwargs) ==
    IF title = "" /\ DOMAIN kwargs = {} THEN NoObj
    ELSE LET brains == contentFilter(p, portal_type, title, kwargs)
         IN IF Len(brains) = 1 THEN brains[1] ELSE NoObj

(* get_object(catalog, portal_type, title, **kwargs): the object when      *)
(* exactly one matches; for an AnalysisService with no match, the first    *)
(* one whose keyword is the title.  (The info messages it logs are left    *)
(* out.)                                                                   *)
get_object_kwargs(p, portal_type, title, kwargs) ==
    IF title = "" /\ DOMAIN kwargs = {} THEN NoObj
    ELSE LET brains == contentFilter(p, portal_type, title, kwargs)
         IN IF Len(brains) > 1 THEN NoObj
            ELSE IF Len(brains) = 0
            THEN IF portal_type = "AnalysisService"
                    /\ Len(catalog(p, portal_type, "getKeyword", title)) > 0
                 THEN catalog(p, portal_type, "getKeyword", title)[1]
                 ELSE NoObj
            ELSE brains[1]

(* get_object(catalog, portal_type, title), called without keyword         *)
(* arguments.                                                              *)
get_object(p, portal_type, title) ==
    get_object_kwargs(p, portal_type, title, EmptyMap)

-----------------------------------------------------------------------------
(* Cell values and to_bool *)

(* The value of a cell the code converts: its Python type and its content. *)
(* A text is the sequence of its characters, a float its number of tenths. *)
StrValue(s) == [type |-> "str", value |-> s]

UnicodeValue(s) == [type |-> "unicode", value |-> s]

IntValue(n) == [type |-> "int", value |-> n]

FloatValue(tenths) == [type |-> "float", value |-> tenths]

BoolValue(b) == [type |-> "bool", value |-> b]

None == [type |-> "NoneType", value |-> 0]

IsText(value) == value.type \in {"str", "unicode"}

LowerCase ==
    ("T" :> "t") @@ ("R" :> "r") @@ ("U" :> "u") @@ ("E" :> "e")
    @@ ("O" :> "o") @@ ("N" :> "n") @@ ("A" :> "a") @@ ("B" :> "b")

Digits ==
    ("0" :> 0) @@ ("1" :> 1) @@ ("2" :> 2) @@ ("3" :> 3) @@ ("4" :> 4)
    @@ ("5" :> 5) @@ ("6" :> 6) @@ ("7" :> 7) @@ ("8" :> 8) @@ ("9" :> 9)

Whitespace == {" ", "\t", "\n", "\r"}

(* s.strip(chars): s without its leading and trailing characters of chars. *)
strip(s, chars) ==
    LET kept == {i \in 1..Len(s) : s[i] \notin chars}
        first == CHOOSE i \in kept : \A j \in kept : i <= j
        last == CHOOSE i \in kept : \A j \in kept : i >= j
    IN IF kept = {} THEN <<>> ELSE SubSeq(s, first, last)

(* value.lower(): of a text, its characters in lower case; any other       *)
(* value has no such method (the exception is passed over).                *)
lower(value) ==
    IF IsText(value)
    THEN [type |-> value.type,
          value |-> [i \in 1..Len(value.value) |->
                        IF value.value[i] \in DOMAIN LowerCase
                        THEN LowerCase[value.value[i]] ELSE value.value[i]]]
    ELSE value

(* value.encode('utf-8'): a unicode text becomes a str, an (ASCII) str is  *)
(* left as it is, any other value has no such method.                      *)
encode(value) ==
    IF value.type = "unicode" THEN StrValue(value.value) ELSE value

RECURSIVE DecimalOf(_)
DecimalOf(digits) ==
    IF digits = <<>> THEN 0
    ELSE 10 * DecimalOf(SubSeq(digits, 1, Len(digits) - 1))
            + Digits[digits[Len(digits)]]

(* int(value): of a text, the number it spells (white space around it, a   *)
(* sign, decimal digits); of a float, its integral part; of a bool, 0 or   *)
(* 1; a value int() raises for is left as it is.                           *)
int(value) ==
    CASE IsText(value) ->
            LET s == strip(value.value, Whitespace)
                signed == s # <<>> /\ s[1] \in {"+", "-"}
                digits == IF signed THEN Tail(s) ELSE s
                n == DecimalOf(digits)
            IN IF digits # <<>>
                  /\ \A i \in 1..Len(digits) : digits[i] \in DOMAIN Digits
               THEN IntValue(IF signed /\ s[1] = "-" THEN 0 - n ELSE n)
               ELSE value
      [] value.type = "int" -> value
      [] value.type = "float" ->
            IntValue(IF value.value >= 0 THEN value.value \div 10
                     ELSE 0 - ((0 - value.value) \div 10))
      [] value.type = "bool" -> IntValue(IF value.value THEN 1 ELSE 0)
      [] OTHER -> value

(* to_bool: value in ('true', 1), after lower(), encode() and int(), each  *)
(* kept only if it does not raise.                                         *)
to_bool(value) ==
    LET v == int(encode(lower(value)))
    IN \/ IsText(v) /\ v.value = <<"t", "r", "u", "e">>
       \/ v.type \in {"int", "bool"} /\ v = IntValue(1)
       \/ v.type = "float" /\ v.value = 10

-----------------------------------------------------------------------------
(* Containers *)

Containers_row(st, row) ==
    IF row.title = "" THEN st
    ELSE LET ct == IF row.ContainerType_title # ""
                   THEN get_object(st.portal, "ContainerType",
                                   row.ContainerType_title)
                   ELSE NoObj
             pres == IF row.Preservation_title # ""
                     THEN get_object(st.portal, "Preservation",
                                     row.Preservation_title)
                     ELSE NoObj
             obj == [portal_type |-> "SampleContainer", title |-> row.title,
                     description |-> row.description,
                     Capacity |-> row.Capacity, PrePreserved |-> FALSE,
                     ContainerType |-> 0, Preservation |-> 0]
         IN IF "PrePreserved" \notin DOMAIN row
            THEN Raise(edit(createObject(st, "sample_containers", obj),
                            st.uid + 1),
                       "KeyError", "PrePreserved")
            ELSE edit(createObject(st, "sample_containers",
                        [obj EXCEPT !.PrePreserved =
                                        to_bool(row.PrePreserved),
                                    !.ContainerType = ct.UID,
                                    !.Preservation = pres.UID]),
                      st.uid + 1)

-----------------------------------------------------------------------------
(* Invoice_Batches *)

Invoice_Batches_row(st, row) ==
    LET s1 == createObject(st, "invoices",
                [portal_type |-> "InvoiceBatch", title |-> "",
                 BatchStartDate |-> "", BatchEndDate |-> ""])
        n == Len(s1.portal["invoices"])
    IN IF row.title = ""
       THEN Raise(s1, "Exception", "InvoiceBatch has no Title")
       ELSE IF row.start = ""
       THEN Raise(s1, "Exception", "InvoiceBatch has no Start Date")
       ELSE IF row.end = ""
       THEN Raise(s1, "Exception", "InvoiceBatch has no End Date")
       ELSE notify(edit([s1 EXCEPT
                            !.portal["invoices"][n].title = row.title,
                            !.portal["invoices"][n].BatchStartDate = row.start,
                            !.portal["invoices"][n].BatchEndDate = row.end],
                        st.uid + 1),
                   st.uid + 1)


-----------------------------------------------------------------------------
(* portal_registration, portal_groups *)

ExistingGroups == {"Analysts", "LabManagers", "LabManager", "Clients"}

(* portal_registration.addMember raises for a username that is taken or    *)
(* that the registration tool refuses.                                     *)
addMember_raises(u, rej, username) ==
    username \in u.members \/ username \in rej

addMember(u, username) == [u EXCEPT !.members = @ \cup {username}]

(* group.addMember(username) for each group id that getGroupById finds. *)
addToGroups(u, username, group_ids) ==
    [u EXCEPT !.groups = @ \cup
        {<<group_ids[i], username>> : i \in
            {j \in 1..Len(group_ids) : group_ids[j] \in ExistingGroups}}]

addRoles(u, username, role_ids) ==
    [u EXCEPT !.roles = @ \cup
        {<<username, role_ids[i]>> : i \in 1..Len(role_ids)}]

manage_setLocalRoles(u, where, username, role) ==
    [u EXCEPT !.local_roles = @ \cup {<<where, username, role>>}]

InSeq(x, s) == \E i \in 1..Len(s) : s[i] = x

-----------------------------------------------------------------------------
(* Lab_Contacts *)

(* Creating the Plone user of a lab contact: a refused addMember is        *)
(* logged and the loop continues with the next row.                        *)
Lab_Contacts_account(st, rej, row) ==
    LET username == row.Username
        u1 == addMember(st.users, username)
        s1 == [st EXCEPT !.users = u1]
        s2 == IF row.Groups = <<>>
              THEN Log(s1, "warning", "Lab Contact: No groups defined")
              ELSE s1
        group_ids == IF row.Groups = <<>> THEN <<"Analysts">>
                     ELSE row.Groups
        u2 == addRoles(addToGroups(s2.users, username, group_ids),
                       username, row.Roles)
        u3 == IF InSeq("LabManager", group_ids)
              THEN manage_setLocalRoles(u2, "clients", username, "Owner")
              ELSE u2
    IN IF addMember_raises(st.users, rej, username)
       THEN Log(st, "error", "Client Contact: Error adding user")
       ELSE [s2 EXCEPT !.users = u3]

Lab_Contacts_row(st, fs, rej, row) ==
    LET fullname == Fullname(row.Firstname, row.Surname)
        ob == SelectSeq(st.portal["bika_labcontacts"],
                        LAMBDA o : /\ o.portal_type = "LabContact"
                                   /\ o.Username = row.Username)
        signature == get_file_data(fs, row.Signature)
        s1 == IF row.Signature # "" /\ signature = NoFile
              THEN Log(st, "warning",
                       "Lab Contact: Cannot load the signature file")
              ELSE st
        s2 == createObject(s1, "bika_labcontacts",
                [portal_type |-> "LabContact", title |-> fullname,
                 Firstname |-> row.Firstname, Surname |-> row.Surname,
                 Username |-> row.Username, Signature |-> signature,
                 EmailAddress |-> row.EmailAddress])
        obj == Last(s2, "bika_labcontacts")
        s2a == fill_addressfields(
                    fill_contactfields(notify(s2, obj.UID), obj.UID), obj.UID)
        s3 == IF row.Department_title # ""
              THEN Defer(s2a, obj.UID, "Department", "senaite_catalog_setup",
                         [portal_type |-> "Department",
                          title |-> row.Department_title])
              ELSE s2a
        s4 == IF row.Username = ""
              THEN Log(s3, "warning", "Lab Contact: No username defined")
              ELSE s3
        s5 == IF row.EmailAddress = ""
              THEN Log(s4, "warning", "Lab Contact: No Email defined")
              ELSE s4
    IN IF row.Firstname = "" THEN st
       ELSE IF row.Username # "" /\ Len(ob) > 0
       THEN Log(st, "error", "Lab Contact: username already exists")
       ELSE IF row.Username = "" \/ row.EmailAddress = "" THEN s5
       ELSE IF row.Password = ""
       \* the warning's format string names argument {3} of three
       THEN Raise(s5, "IndexError", "tuple index out of range")
       ELSE Lab_Contacts_account(s5, rej, row)

(* The pass after the loop: the manager of each department of the          *)
(* "Lab Departments" sheet that has none yet.                              *)
Lab_Contacts_manager(st, row) ==
    LET depts == st.portal["bika_departments"]
        dept == getobj(depts, "Department", "Title", row.title)
        cont == getobj(st.portal["bika_labcontacts"], "LabContact",
                       "getUsername", row.LabContact_Username)
        k == CHOOSE i \in 1..Len(depts) : depts[i].UID = dept.UID
    IN IF row.title = "" \/ row.LabContact_Username = "" THEN st
       ELSE IF Found(dept) /\ dept.Manager = 0 /\ Found(cont)
       THEN [st EXCEPT !.portal["bika_departments"][k].Manager = cont.UID]
       ELSE st

RECURSIVE Lab_Contacts_managers(_, _, _)
Lab_Contacts_managers(st, rows, i) ==
    IF i > Len(rows) THEN st
    ELSE Lab_Contacts_managers(Lab_Contacts_manager(st, rows[i]), rows, i + 1)

Lab_Contacts_end(st, wb) ==
    IF "Lab Departments" \notin DOMAIN wb
    THEN Raise(st, "KeyError", "Lab Departments")
    ELSE Lab_Contacts_managers(st, wb["Lab Departments"], 1)

-----------------------------------------------------------------------------
(* Lab_Departments *)

Lab_Departments_row(st, row) ==
    LET lab_contacts == SelectSeq(st.portal["bika_labcontacts"],
                            LAMBDA o : /\ o.portal_type = "LabContact"
                                       /\ o.Username =
                                            row.LabContact_Username)
        manager == IF Len(lab_contacts) > 0 THEN lab_contacts[1] ELSE NoObj
        s1 == createObject(st, "bika_departments",
                [portal_type |-> "Department", title |-> row.title,
                 description |-> row.description,
                 Manager |-> manager.UID])
    IN IF row.title = "" THEN st
       ELSE IF Found(getobj(st.portal["bika_departments"], "Department",
                            "Title", row.title)) THEN st
       ELSE IF Found(manager) THEN notify(edit(s1, st.uid + 1), st.uid + 1)
       ELSE notify(Log(s1, "info", "Department manager lookup failed"),
                   st.uid + 1)

-----------------------------------------------------------------------------
(* Client_Contacts *)

RECURSIVE Client_Contacts_defer(_, _, _, _)
Client_Contacts_defer(st, contact, names, i) ==
    IF i > Len(names) THEN st
    ELSE Client_Contacts_defer(
            Defer(st, contact, "CCContact", "portal_catalog",
                  [portal_type |-> "Contact", getFullname |-> names[i]]),
            contact, names, i + 1)

Client_Contacts_row(st, rej, row) ==
    LET fullname == Fullname(row.Firstname, row.Surname)
        client == getobj(st.portal["clients"], "Client", "getName",
                         row.Client_title)
        s1 == createObject(st, "contacts",
                [portal_type |-> "Contact", parent |-> client.UID,
                 Firstname |-> row.Firstname, Surname |-> row.Surname,
                 Username |-> row.Username,
                 EmailAddress |-> row.EmailAddress])
        contact == Last(s1, "contacts")
        s1a == notify(fill_addressfields(
                        fill_contactfields(s1, contact.UID), contact.UID),
                      contact.UID)
        s2 == Client_Contacts_defer(s1a, contact.UID, row.CCContacts, 1)
        username == row.Username
        s3 == IF addMember_raises(s2.users, rej, username)
              THEN Log(s2, "info", "Error adding user")
              ELSE [s2 EXCEPT !.users = addMember(@, username)]
        u4 == addToGroups(
                manage_setLocalRoles(s3.users, client.UID, username, "Owner"),
                username, <<"Clients">>)
    IN IF fullname = Fullname("", "") THEN st
       ELSE IF ~Found(client)
       THEN Log(st, "error", "Client invalid")
       ELSE IF Found(getobj(ChildrenOf(st.portal["contacts"], client.UID),
                            "Contact", "getFullname", fullname)) THEN st
       ELSE IF username = "" THEN s2
       ELSE [s3 EXCEPT !.users = u4]


-----------------------------------------------------------------------------
(* Instruments, addDocument *)

Get(row, k, default) == IF k \in DOMAIN row THEN row[k] ELSE default

(* addDocument: a Multifile in the instrument, unless its DocumentID is    *)
(* in use; a file that cannot be read leaves File unset.                   *)
addDocument(st, fs, row_dict, folder) ==
    LET file_data == read_file(fs, row_dict.File)
        s1 == IF file_data = NoFile
              THEN Log(st, "warning", "File not found. Error on sheet")
              ELSE st
        idAlreadyInUse ==
            \E i \in 1..Len(st.portal["multifiles"]) :
                st.portal["multifiles"][i].DocumentID = row_dict.DocumentID
    IN IF ~Found(folder) \/ row_dict.File = "" THEN st
       ELSE IF idAlreadyInUse THEN s1
       ELSE notify(createObject(s1, "multifiles",
                        [portal_type |-> "Multifile", parent |-> folder.UID,
                         DocumentID |-> row_dict.DocumentID,
                         DocumentType |-> row_dict.DocumentType,
                         File |-> file_data]),
                   s1.uid + 1)

try_read_file_unguarded(st, fs, filename) ==
    IF read_file(fs, filename) = NoFile
    THEN Raise(st, "IOError", "File not found")
    ELSE st

(* try: file_data = read_file(path), and the setter; except Exception: a   *)
(* warning.  (The setter's effect is in the object as created: the file    *)
(* read, or nothing.)                                                      *)
try_read_file(st, fs, filename) ==
    IF read_file(fs, filename) = NoFile
    THEN Log(st, "warning", "File not found. Error on sheet")
    ELSE st

Instruments_row(st, fs, row) ==
    LET instrumenttype == getobj(st.portal["bika_instrumenttypes"],
                                 "InstrumentType", "Title", row.Type)
        manufacturer == getobj(st.portal["bika_manufacturers"],
                               "Manufacturer", "Title", row.Brand)
        supplier == getobj(st.portal["bika_suppliers"], "Supplier",
                           "getName", row.Supplier)
        method == getobj(st.portal["methods"], "Method", "Title",
                         Get(row, "Method", ""))
        photo == IF Get(row, "Photo", "") # ""
                 THEN read_file(fs, row.Photo) ELSE NoFile
        cert == IF Get(row, "InstalationCertificate", "") # ""
                THEN read_file(fs, row.InstalationCertificate) ELSE NoFile
        s1 == createObject(st, "bika_instruments",
                [portal_type |-> "Instrument", title |-> row.title,
                 Type |-> row.Type, Brand |-> row.Brand,
                 InstrumentType |-> instrumenttype.UID,
                 Manufacturer |-> manufacturer.UID,
                 Supplier |-> supplier.UID,
                 Methods |-> IF Found(method) THEN <<method.UID>> ELSE <<>>,
                 Method |-> method.UID,
                 Photo |-> photo,
                 InstallationCertificate |-> cert])
        obj == Last(s1, "bika_instruments")
        s2 == IF Get(row, "Photo", "") # ""
              THEN try_read_file(s1, fs, row.Photo) ELSE s1
        s3 == IF Get(row, "InstalationCertificate", "") # ""
              THEN try_read_file(s2, fs, row.InstalationCertificate) ELSE s2
    IN IF row.title = "" THEN st
       ELSE IF Found(getobj(st.portal["bika_instruments"], "Instrument",
                            "Title", row.title)) THEN st
       ELSE IF ~({"Type", "Supplier", "Brand"} \subseteq DOMAIN row)
       THEN Log(st, "info", "Unable to import. Missing supplier, manufacturer or type")
       ELSE IF Get(row, "UserManualFile", "") # ""
       THEN notify(addDocument(edit(s3, obj.UID), fs,
                        [DocumentID |-> Get(row, "UserManualID", "manual"),
                         DocumentType |-> "Manual",
                         File |-> row.UserManualFile],
                        obj),
                   obj.UID)
       ELSE notify(edit(s3, obj.UID), obj.UID)

-----------------------------------------------------------------------------
(* Methods *)

(* A title -> list mapping with one more entry for a title. *)
MapAppend(m, title, entry) ==
    IF title \in DOMAIN m THEN [m EXCEPT ![title] = Append(@, entry)]
    ELSE m @@ (title :> <<entry>>)

MapGet(m, title) == IF title \in DOMAIN m THEN m[title] ELSE <<>>

RECURSIVE instrument_methods_of(_, _, _, _)
instrument_methods_of(m, insfolder, rows, i) ==
    IF i > Len(rows) THEN m
    ELSE LET row == rows[i]
             instrument == getobj(insfolder, "Instrument", "title",
                                  row.Instrument_title)
             m1 == IF row.Method_title \in DOMAIN m THEN m
                   ELSE m @@ (row.Method_title :> <<>>)
         IN IF row.Instrument_title = "" \/ row.Method_title = ""
            THEN instrument_methods_of(m, insfolder, rows, i + 1)
            ELSE IF Found(instrument)
            THEN instrument_methods_of(
                    MapAppend(m1, row.Method_title, instrument.UID),
                    insfolder, rows, i + 1)
            ELSE instrument_methods_of(m1, insfolder, rows, i + 1)

(* load_instrument_methods: the instruments the "Instrument Methods" sheet *)
(* names for each method title.                                            *)
load_instrument_methods(st, wb) ==
    IF "Instrument Methods" \notin DOMAIN wb
    THEN Raise(st, "KeyError", "Instrument Methods")
    ELSE [st EXCEPT !.self.instrument_methods =
            instrument_methods_of(EmptyMap, st.portal["bika_instruments"],
                                  wb["Instrument Methods"], 1)]

(* for methods in methods_brains: the first method whose                   *)
(* getObject().get('MethodID', '') is not empty has the second operand     *)
(* evaluated, methods.getObject.get, which is an attribute the bound       *)
(* method getObject does not have.  (The catalog holds all the methods     *)
(* created, the new one too.)                                              *)
MethodID_unique(st, new) ==
    IF /\ method_get = "field"
       /\ \E i \in 1..Len(st.portal["methods"]) :
            st.portal["methods"][i].MethodID # ""
    THEN Raise(st, "AttributeError", "get")
    ELSE st

(* The body of the loop of Methods.Import. *)
Methods_row(st, fs, row) ==
    LET calculation == getobj(st.portal["bika_calculations"], "Calculation",
                              "Title", Get(row, "Calculation_title", ""))
        instrument == getobj(st.portal["bika_instruments"], "Instrument",
                             "Title", Get(row, "Instrument_title", ""))
        listed == MapGet(st.self.instrument_methods, row.title)
        instruments_uids == IF Found(instrument)
                            THEN Append(listed, instrument.UID) ELSE listed
        supplier == getobj(st.portal["bika_suppliers"], "Supplier", "Title",
                           Get(row, "Subcontractor_title", ""))
        document == IF row.MethodDocument # ""
                    THEN read_file(fs, row.MethodDocument) ELSE NoFile
        s1 == createObject(st, "methods",
                [portal_type |-> "Method", title |-> row.title,
                 description |-> Get(row, "description", ""),
                 Calculation |-> calculation.UID,
                 MethodID |-> Get(row, "MethodID", ""),
                 Supplier |-> supplier.UID, Instruments |-> instruments_uids,
                 MethodDocument |-> document])
        s2 == MethodID_unique(s1, st.uid + 1)
    IN IF row.title = "" THEN st
       ELSE IF Found(getobj(st.portal["methods"], "Method", "Title",
                            row.title)) THEN st
       ELSE IF s2.raised # NoExc THEN s2
       ELSE IF row.MethodDocument # ""
       THEN notify(edit(try_read_file(s2, fs, row.MethodDocument),
                        st.uid + 1),
                   st.uid + 1)
       ELSE notify(s2, st.uid + 1)

-----------------------------------------------------------------------------
(* Calculations *)

RECURSIVE interim_fields_of(_, _, _)
interim_fields_of(m, rows, i) ==
    IF i > Len(rows) THEN m
    ELSE interim_fields_of(
            MapAppend(m, rows[i].Calculation_title,
                      [keyword |-> rows[i].keyword, title |-> rows[i].title,
                       type |-> "int", hidden |-> (rows[i].hidden # ""),
                       value |-> rows[i].value, unit |-> rows[i].unit]),
            rows, i + 1)

(* get_interim_fields: the "Calculation Interim Fields" sheet, by          *)
(* calculation title.                                                      *)
get_interim_fields(st, wb) ==
    IF "Calculation Interim Fields" \notin DOMAIN wb
    THEN Raise(st, "KeyError", "Calculation Interim Fields")
    ELSE [st EXCEPT !.self.interim_fields =
            interim_fields_of(EmptyMap, wb["Calculation Interim Fields"], 1)]

NotInToken == {".", "^", "]"}

(* The end of the run of characters that starts at s[i]: the first         *)
(* position at or after i that holds '.', '^' or ']', Len(s)+1 if none.    *)
RECURSIVE RunEnd(_, _)
RunEnd(s, i) ==
    IF i > Len(s) \/ s[i] \in NotInToken THEN i ELSE RunEnd(s, i + 1)

RECURSIVE findall_from(_, _)
findall_from(s, i) ==
    IF i > Len(s) THEN <<>>
    ELSE IF s[i] # "[" THEN findall_from(s, i + 1)
    ELSE LET e == RunEnd(s, i + 1)
         IN IF e <= Len(s) /\ s[e] = "]" /\ e > i + 1
            THEN <<SubSeq(s, i + 1, e - 1)>> \o findall_from(s, e + 1)
            ELSE findall_from(s, i + 1)

findall_every_bracket(s) ==
    LET RECURSIVE scan(_)
        scan(i) ==
            IF i > Len(s) THEN <<>>
            ELSE IF s[i] # "[" THEN scan(i + 1)
            ELSE LET close == {j \in (i + 1)..Len(s) : s[j] = "]"}
                     e == CHOOSE j \in close : \A k \in close : j <= k
                 IN IF close # {} /\ e > i + 1
                    THEN <<SubSeq(s, i + 1, e - 1)>> \o scan(e + 1)
                    ELSE scan(i + 1)
    IN scan(1)

(* re.compile(r"\[([^.^\]]+)]").findall(formula): left to right, without   *)
(* overlap, each '[' followed by one or more characters other than '.',    *)
(* '^' and ']' and then by ']'.                                            *)
findall(s) == findall_from(s, 1)

RECURSIVE Calculations_defer(_, _, _, _)
Calculations_defer(st, obj, kws, i) ==
    IF i > Len(kws) THEN st
    ELSE Calculations_defer(
            Defer(st, obj, "DependentServices", "senaite_catalog_setup",
                  [portal_type |-> "AnalysisService",
                   getKeyword |-> kws[i]]),
            obj, kws, i + 1)

Calculations_row(st, row) ==
    LET calc_interims == MapGet(st.self.interim_fields, row.title)
        keywords == findall(row.Formula)
        interim_keys == {calc_interims[k].keyword :
                            k \in 1..Len(calc_interims)}
        dep_keywords == SelectSeq(keywords, LAMBDA k : k \notin interim_keys)
        s1 == createObject(st, "bika_calculations",
                [portal_type |-> "Calculation", title |-> row.title,
                 description |-> row.description,
                 InterimFields |-> calc_interims,
                 Formula |-> row.Formula])
        obj == Last(s1, "bika_calculations")
    IN IF row.title = "" THEN st
       ELSE IF Found(getobj(st.portal["bika_calculations"], "Calculation",
                            "title", row.title)) THEN st
       ELSE notify(Calculations_defer(s1, obj.UID, dep_keywords, 1), obj.UID)

(* A pass that sets the calculation of a method that has one already. *)
Calculations_method_overwrite(st, row) ==
    LET meths == st.portal["methods"]
        meth == getobj(meths, "Method", "Title", row.title)
        calc == getobj(st.portal["bika_calculations"], "Calculation",
                       "Title", row.Calculation_title)
        k == CHOOSE i \in 1..Len(meths) : meths[i].UID = meth.UID
    IN IF row.title = "" \/ row.Calculation_title = "" THEN st
       ELSE IF Found(meth) /\ Found(calc)
       THEN [st EXCEPT !.portal["methods"][k].Calculation = calc.UID]
       ELSE st

(* The pass after the loop: the calculation of each method of the          *)
(* "Methods" sheet that has none yet.                                      *)
Calculations_method(st, row) ==
    LET meths == st.portal["methods"]
        meth == getobj(meths, "Method", "Title", row.title)
        calc == getobj(st.portal["bika_calculations"], "Calculation",
                       "Title", row.Calculation_title)
        k == CHOOSE i \in 1..Len(meths) : meths[i].UID = meth.UID
    IN IF row.title = "" \/ row.Calculation_title = "" THEN st
       ELSE IF Found(meth) /\ meth.Calculation = 0 /\ Found(calc)
       THEN [st EXCEPT !.portal["methods"][k].Calculation = calc.UID]
       ELSE st

RECURSIVE Calculations_methods(_, _, _)
Calculations_methods(st, rows, i) ==
    IF i > Len(rows) THEN st
    ELSE Calculations_methods(Calculations_method(st, rows[i]), rows, i + 1)

Calculations_end(st, wb) ==
    IF "Methods" \notin DOMAIN wb THEN Raise(st, "KeyError", "Methods")
    ELSE Calculations_methods(st, wb["Methods"], 1)


-----------------------------------------------------------------------------
(* Analysis_Services *)

BucketFlush == 500

(* The index in a folder of the object with a UID. *)
IndexOf(items, u) == CHOOSE i \in 1..Len(items) : items[i].UID = u

RECURSIVE service_interims_of(_, _, _)
service_interims_of(m, rows, i) ==
    IF i > Len(rows) THEN m
    ELSE service_interims_of(
            MapAppend(m, rows[i].Service_title,
                      [keyword |-> rows[i].keyword, title |-> rows[i].title,
                       type |-> "int", value |-> rows[i].value,
                       unit |-> rows[i].unit]),
            rows, i + 1)

(* load_interim_fields: the "AnalysisService InterimFields" sheet, by      *)
(* service title.                                                          *)
load_interim_fields(st, wb) ==
    IF "AnalysisService InterimFields" \notin DOMAIN wb
    THEN Raise(st, "KeyError", "AnalysisService InterimFields")
    ELSE [st EXCEPT !.self.service_interims =
            service_interims_of(EmptyMap,
                                wb["AnalysisService InterimFields"], 1)]

(* get_relations, past the default object: the objects the relation sheet  *)
(* names for the service, up to the first row without a service title.     *)
RECURSIVE get_relations(_, _, _, _, _, _, _, _)
get_relations(p, out, rows, i, service_title, default_obj, obj_type, column) ==
    IF i > Len(rows) THEN out
    ELSE LET obj == get_object(p, obj_type, rows[i][column])
         IN IF rows[i].Service_title = "" THEN out
            ELSE IF rows[i].Service_title # service_title
            THEN get_relations(p, out, rows, i + 1, service_title,
                               default_obj, obj_type, column)
            ELSE IF Found(obj) /\ ~(Found(default_obj)
                                     /\ default_obj.UID = obj.UID)
            THEN get_relations(p, Append(out, obj), rows, i + 1,
                               service_title, default_obj, obj_type, column)
            ELSE get_relations(p, out, rows, i + 1, service_title,
                               default_obj, obj_type, column)

get_methods_sheet_only(p, wb, service_title, default_method) ==
    get_relations(p, <<>>, wb["AnalysisService Methods"], 1, service_title,
                  default_method, "Method", "Method_title")

get_methods(p, wb, service_title, default_method) ==
    get_relations(p,
                  IF Found(default_method) THEN <<default_method>> ELSE <<>>,
                  wb["AnalysisService Methods"], 1, service_title,
                  default_method, "Method", "Method_title")

get_instruments(p, wb, service_title, default_instrument) ==
    get_relations(p,
                  IF Found(default_instrument) THEN <<default_instrument>>
                  ELSE <<>>,
                  wb["AnalysisService Instruments"], 1, service_title,
                  default_instrument, "Instrument", "Instrument_title")

UIDs(objs) == [i \in 1..Len(objs) |-> objs[i].UID]

(* Manual entry as the row gives it, whatever the instruments. *)
allowmanualentry_row(allowinstrentry, row) ==
    Get(row, "ManualEntryOfResults", "True")

(* The manual entry of results can only be set to false if the value for   *)
(* the attribute "InstrumentEntryOfResults" is False.  (True is written    *)
(* "True"; the value of the row is the text of its cell.)                  *)
allowmanualentry(allowinstrentry, row) ==
    IF ~allowinstrentry THEN "True"
    ELSE Get(row, "ManualEntryOfResults", "True")

Analysis_Services_edit(st, wb, row) ==
    LET n == Len(st.portal["bika_analysisservices"])
        category == get_object(st.portal, "AnalysisCategory",
                               Get(row, "AnalysisCategory_title", ""))
        department == get_object(st.portal, "Department",
                                 Get(row, "Department_title", ""))
        method0 == getobj(st.portal["methods"], "Method", "Title",
                          Get(row, "DefaultMethod_title", ""))
        methods == get_methods(st.portal, wb, row.title, method0)
        defaultmethod == IF ~Found(method0) /\ Len(methods) > 0
                         THEN methods[1] ELSE method0
        instrument0 == getobj(st.portal["bika_instruments"], "Instrument",
                              "Title", Get(row, "DefaultInstrument_title", ""))
        instruments == get_instruments(st.portal, wb, row.title, instrument0)
        allowinstrentry == Len(instruments) > 0
        defaultinstrument == IF ~Found(instrument0) /\ Len(instruments) > 0
                             THEN instruments[1] ELSE instrument0
        deferredcalculation == getobj(st.portal["bika_calculations"],
                                      "Calculation", "Title",
                                      Get(row, "Calculation_title", ""))
        calculation == IF Found(deferredcalculation)
                       THEN deferredcalculation.UID
                       ELSE IF Found(defaultmethod)
                       THEN defaultmethod.Calculation ELSE 0
    IN IF "AnalysisService Methods" \notin DOMAIN wb
       THEN Raise(st, "KeyError", "AnalysisService Methods")
       ELSE IF "AnalysisService Instruments" \notin DOMAIN wb
       THEN Raise(st, "KeyError", "AnalysisService Instruments")
       ELSE notify(edit(
            [st EXCEPT !.portal["bika_analysisservices"][n] =
                [portal_type |-> "AnalysisService", UID |-> @.UID,
                 title |-> row.title, Keyword |-> row.Keyword,
                 Category |-> category.UID, Department |-> department.UID,
                 Method |-> defaultmethod.UID, Methods |-> UIDs(methods),
                 ManualEntryOfResults |->
                    allowmanualentry(allowinstrentry, row),
                 InstrumentEntryOfResults |-> allowinstrentry,
                 Instrument |-> defaultinstrument.UID,
                 Instruments |-> UIDs(instruments),
                 Calculation |-> calculation,
                 UseDefaultCalculation |-> ~Found(deferredcalculation),
                 InterimFields |-> MapGet(st.self.service_interims, row.title),
                 Separate |-> to_bool(Get(row, "Separate", BoolValue(FALSE))),
                 ResultOptions |-> <<>>, Uncertainties |-> <<>>]],
            st.uid), st.uid)

Analysis_Services_row(st, wb, row) ==
    IF row.title = "" \/ row.Keyword = "" THEN st
    ELSE IF Found(getobj(st.portal["bika_analysisservices"],
                         "AnalysisService", "getKeyword", row.Keyword))
    THEN st
    ELSE Analysis_Services_edit(
            createObject(st, "bika_analysisservices",
                [portal_type |-> "AnalysisService", title |-> "",
                 Keyword |-> "", Category |-> 0, Department |-> 0,
                 Method |-> 0, Methods |-> <<>>,
                 ManualEntryOfResults |-> "True",
                 InstrumentEntryOfResults |-> FALSE, Instrument |-> 0,
                 Instruments |-> <<>>, Calculation |-> 0,
                 UseDefaultCalculation |-> TRUE, InterimFields |-> <<>>,
                 Separate |-> FALSE,
                 ResultOptions |-> <<>>, Uncertainties |-> <<>>]),
            wb, row)

(* load_result_options: one result option per row, until a row names a    *)
(* service that does not exist.                                           *)
RECURSIVE result_options(_, _, _)
result_options(st, rows, i) ==
    IF i > Len(rows) THEN st
    ELSE LET folder == st.portal["bika_analysisservices"]
             service == getobj(folder, "AnalysisService", "Title",
                               rows[i].Service_title)
             k == IndexOf(folder, service.UID)
         IN IF ~Found(service) THEN st
            ELSE result_options(
                    [st EXCEPT !.portal["bika_analysisservices"][k]
                                    .ResultOptions =
                        Append(@, [ResultValue |-> rows[i].ResultValue,
                                   ResultText |-> rows[i].ResultText])],
                    rows, i + 1)

load_result_options(st, wb) ==
    IF "AnalysisService ResultOptions" \notin DOMAIN wb
    THEN Raise(st, "KeyError", "AnalysisService ResultOptions")
    ELSE result_options(st, wb["AnalysisService ResultOptions"], 1)

RECURSIVE write_bucket_items(_, _)
write_bucket_items(st, bucket) ==
    IF DOMAIN bucket = {} THEN st
    ELSE LET service_uid == CHOOSE u \in DOMAIN bucket : TRUE
             folder == st.portal["bika_analysisservices"]
             k == IndexOf(folder, service_uid)
             rest == [u \in DOMAIN bucket \ {service_uid} |-> bucket[u]]
         IN write_bucket_items(
                Event([st EXCEPT !.portal["bika_analysisservices"][k]
                                    .Uncertainties = @ \o bucket[service_uid]],
                      "setUncertainties", service_uid),
                rest)

(* write_bucket: the bucket's uncertainties appended to each service. *)
write_bucket(st, bucket) ==
    write_bucket_items(Event(st, "write_bucket", 0), bucket)

(* A pass that keeps the bucket after it has written it back. *)
uncertainty_row_kept(ls, row) ==
    LET st == ls.st
        service == getobj(st.portal["bika_analysisservices"],
                          "AnalysisService", "Title", row.Service_title)
        b1 == MapAppend(ls.bucket, service.UID,
                        [intercept_min |-> row["Range Min"],
                         intercept_max |-> row["Range Max"],
                         errorvalue |-> row["Uncertainty Value"]])
    IN IF ~Found(service)
       THEN [ls EXCEPT !.st = Log(st, "warning",
                            "Unable to load an Analysis Service uncertainty"),
                       !.count = @ + 1]
       ELSE IF ls.count + 1 > BucketFlush
       THEN [st |-> write_bucket(st, b1), bucket |-> b1,
             count |-> ls.count + 1]
       ELSE [ls EXCEPT !.bucket = b1, !.count = @ + 1]

(* One pass of the loop of load_service_uncertainties, on the importer     *)
(* state ls.st and the locals ls.bucket and ls.count.                      *)
uncertainty_row(ls, row) ==
    LET st == ls.st
        service == getobj(st.portal["bika_analysisservices"],
                          "AnalysisService", "Title", row.Service_title)
        b1 == MapAppend(ls.bucket, service.UID,
                        [intercept_min |-> row["Range Min"],
                         intercept_max |-> row["Range Max"],
                         errorvalue |-> row["Uncertainty Value"]])
    IN IF ~Found(service)
       THEN [ls EXCEPT !.st = Log(st, "warning",
                            "Unable to load an Analysis Service uncertainty"),
                       !.count = @ + 1]
       ELSE IF ls.count + 1 > BucketFlush
       THEN [st |-> write_bucket(st, b1), bucket |-> EmptyMap,
             count |-> ls.count + 1]
       ELSE [ls EXCEPT !.bucket = b1, !.count = @ + 1]

(* The loop over the rows lo..hi, in order.  (The rows are taken by halves *)
(* and the first half is evaluated before the second starts, which keeps   *)
(* the evaluation shallow on long sheets.)                                 *)
RECURSIVE uncertainty_rows(_, _, _, _)
uncertainty_rows(ls, rows, lo, hi) ==
    IF lo > hi THEN ls
    ELSE IF lo = hi THEN uncertainty_row(ls, rows[lo])
    ELSE LET mid == (lo + hi) \div 2
             first == uncertainty_rows(ls, rows, lo, mid)
         IN IF first.count >= lo THEN uncertainty_rows(first, rows, mid + 1, hi)
            ELSE first

service_uncertainties(st, rows) ==
    LET ls == uncertainty_rows([st |-> st, bucket |-> EmptyMap, count |-> 0],
                               rows, 1, Len(rows))
    IN IF DOMAIN ls.bucket # {} THEN write_bucket(ls.st, ls.bucket)
       ELSE ls.st

load_service_uncertainties(st, wb) ==
    IF "Analysis Service Uncertainties" \notin DOMAIN wb
    THEN Raise(st, "KeyError", "Analysis Service Uncertainties")
    ELSE service_uncertainties(st, wb["Analysis Service Uncertainties"])

Analysis_Services_end(st, wb) ==
    LET s1 == load_result_options(st, wb)
    IN IF s1.raised # NoExc THEN s1 ELSE load_service_uncertainties(s1, wb)


-----------------------------------------------------------------------------
(* Instrument_Certifications *)

(* The preparator and the validator are left out: they are set only when   *)
(* the row names a lab contact in its preparedby or approvedby column.     *)
Instrument_Certifications_row(st, fs, row) ==
    LET fldr == getobj(st.portal["bika_instruments"], "Instrument", "Title",
                       row.instrument)
        report == IF row.report # "" THEN read_file(fs, row.report)
                  ELSE NoFile
        s1 == createObject(st, "certifications",
                [portal_type |-> "InstrumentCertification",
                 parent |-> fldr.UID, title |-> row.title,
                 Document |-> report])
    IN IF row.instrument = "" \/ row.title = "" THEN st
       ELSE IF ~Found(fldr) THEN st
       ELSE IF Found(getobj(ChildrenOf(st.portal["certifications"], fldr.UID),
                            "InstrumentCertification", "Title", row.title))
       THEN st
       ELSE IF row.report # ""
       THEN notify(edit(try_read_file(s1, fs, row.report), st.uid + 1),
                   st.uid + 1)
       ELSE notify(s1, st.uid + 1)


-----------------------------------------------------------------------------
(* Analysis_Profiles *)

(* A title -> list mapping with an entry for the title. *)
MapEntry(m, title) ==
    IF title \in DOMAIN m THEN m ELSE m @@ (title :> <<>>)

RECURSIVE profile_services_of(_, _, _, _)
profile_services_of(m, folder, rows, i) ==
    IF i > Len(rows) THEN m
    ELSE LET row == rows[i]
             service == getobj(folder, "AnalysisService", "getKeyword",
                               row.Service)
             m1 == MapEntry(m, row.Profile)
         IN IF row.Profile = "" \/ Len(row.Service) = 0
            THEN profile_services_of(m, folder, rows, i + 1)
            ELSE profile_services_of(
                    IF Found(service) THEN MapAppend(m1, row.Profile,
                                                     service.UID)
                    ELSE m1,
                    folder, rows, i + 1)

(* load_analysis_profile_services: the services the "Analysis Profile      *)
(* Services" sheet names for each profile title.                           *)
load_analysis_profile_services(st, wb) ==
    IF "Analysis Profile Services" \notin DOMAIN wb
    THEN Raise(st, "KeyError", "Analysis Profile Services")
    ELSE [st EXCEPT !.self.profile_services =
            profile_services_of(EmptyMap, st.portal["bika_analysisservices"],
                                wb["Analysis Profile Services"], 1)]

(* The body of the loop of Analysis_Profiles.Import (prices left out). *)
Analysis_Profiles_row(st, row) ==
    LET s1 == createObject(st, "bika_analysisprofiles",
                [portal_type |-> "AnalysisProfile", title |-> "",
                 description |-> "", ProfileKey |-> "", Service |-> <<>>])
        n == Len(s1.portal["bika_analysisprofiles"])
        s2 == edit([s1 EXCEPT
                        !.portal["bika_analysisprofiles"][n].title = row.title,
                        !.portal["bika_analysisprofiles"][n].description =
                            row.description,
                        !.portal["bika_analysisprofiles"][n].ProfileKey =
                            row.ProfileKey],
                   st.uid + 1)
    IN IF row.title = "" THEN st
       ELSE IF Found(getobj(st.portal["bika_analysisprofiles"],
                            "AnalysisProfile", "Title", row.title)) THEN st
       ELSE IF row.title \notin DOMAIN st.self.profile_services
       THEN Raise(s2, "KeyError", row.title)
       ELSE notify(edit([s2 EXCEPT
                            !.portal["bika_analysisprofiles"][n].Service =
                                st.self.profile_services[row.title]],
                        st.uid + 1),
                   st.uid + 1)

-----------------------------------------------------------------------------
(* Worksheet_Templates *)

RECURSIVE wst_layouts_of(_, _, _)
wst_layouts_of(m, rows, i) ==
    IF i > Len(rows) THEN m
    ELSE wst_layouts_of(
            MapAppend(m, rows[i].WorksheetTemplate_title,
                      [pos |-> rows[i].pos, blank_ref |-> rows[i].blank_ref,
                       control_ref |-> rows[i].control_ref,
                       dup |-> rows[i].dup]),
            rows, i + 1)

(* load_wst_layouts: the layout the "Worksheet Template Layouts" sheet     *)
(* gives each template title (the type of a position, looked up in a       *)
(* vocabulary, is left out).                                               *)
load_wst_layouts(st, wb) ==
    IF st.raised # NoExc THEN st
    ELSE IF "Worksheet Template Layouts" \notin DOMAIN wb
    THEN Raise(st, "KeyError", "Worksheet Template Layouts")
    ELSE [st EXCEPT !.self.wst_layouts =
            wst_layouts_of(EmptyMap, wb["Worksheet Template Layouts"], 1)]

RECURSIVE wst_services_of(_, _, _, _)
wst_services_of(m, folder, rows, i) ==
    IF i > Len(rows) THEN m
    ELSE LET service == getobj(folder, "AnalysisService", "Title",
                               rows[i].service)
         IN wst_services_of(
                IF Found(service)
                THEN MapAppend(m, rows[i].WorksheetTemplate_title,
                               service.UID)
                ELSE m,
                folder, rows, i + 1)

(* load_wst_services: the services the "Worksheet Template Services" sheet *)
(* names for each template title, those that exist.                        *)
load_wst_services(st, wb) ==
    IF "Worksheet Template Services" \notin DOMAIN wb
    THEN Raise(st, "KeyError", "Worksheet Template Services")
    ELSE [st EXCEPT !.self.wst_services =
            wst_services_of(EmptyMap, st.portal["bika_analysisservices"],
                            wb["Worksheet Template Services"], 1)]

(* The body of the loop of Worksheet_Templates.Import. *)
Worksheet_Templates_row(st, row) ==
    LET instrument == getobj(st.portal["bika_instruments"], "Instrument",
                             "Title", Get(row, "Instrument_title", ""))
        s1 == createObject(st, "bika_worksheettemplates",
                [portal_type |-> "WorksheetTemplate", title |-> "",
                 description |-> "", Layout |-> <<>>, Service |-> <<>>,
                 Instrument |-> 0])
        n == Len(s1.portal["bika_worksheettemplates"])
        s2 == edit([s1 EXCEPT
                        !.portal["bika_worksheettemplates"][n].title =
                            row.title,
                        !.portal["bika_worksheettemplates"][n].description =
                            row.description,
                        !.portal["bika_worksheettemplates"][n].Layout =
                            st.self.wst_layouts[row.title]],
                   st.uid + 1)
    IN IF row.title = "" THEN st
       ELSE IF Found(getobj(st.portal["bika_worksheettemplates"],
                            "WorksheetTemplate", "Title", row.title)) THEN st
       ELSE IF row.title \notin DOMAIN st.self.wst_layouts
       THEN Raise(s1, "KeyError", row.title)
       ELSE IF row.title \notin DOMAIN st.self.wst_services
       THEN Raise(s2, "KeyError", row.title)
       ELSE notify(edit(edit(
                [s2 EXCEPT
                    !.portal["bika_worksheettemplates"][n].Service =
                        st.self.wst_services[row.title],
                    !.portal["bika_worksheettemplates"][n].Instrument =
                        instrument.UID],
                st.uid + 1), st.uid + 1), st.uid + 1)

-----------------------------------------------------------------------------
(* Import, by importer: the code before the loop over the rows, the body   *)
(* of the loop, and the code after the loop.                               *)

Import_begin(sheet, st, wb) ==
    CASE sheet = "Calculations" -> get_interim_fields(st, wb)
      [] sheet = "Methods" -> load_instrument_methods(st, wb)
      [] sheet = "Analysis Services" -> load_interim_fields(st, wb)
      [] sheet = "Analysis Profiles" ->
            load_analysis_profile_services(st, wb)
      [] sheet = "Worksheet Templates" ->
            load_wst_layouts(load_wst_services(st, wb), wb)
      [] OTHER -> st

Import_row(sheet, st, wb, fs, rej, row) ==
    CASE sheet = "Sub Groups" -> Sub_Groups_row(st, row)
      [] sheet = "Lab Contacts" -> Lab_Contacts_row(st, fs, rej, row)
      [] sheet = "Lab Departments" -> Lab_Departments_row(st, row)
      [] sheet = "Clients" -> Clients_row(st, row)
      [] sheet = "Client Contacts" -> Client_Contacts_row(st, rej, row)
      [] sheet = "Containers" -> Containers_row(st, row)
      [] sheet = "Instruments" -> Instruments_row(st, fs, row)
      [] sheet = "Instrument Certifications" ->
            Instrument_Certifications_row(st, fs, row)
      [] sheet = "Calculations" -> Calculations_row(st, row)
      [] sheet = "Methods" -> Methods_row(st, fs, row)
      [] sheet = "Analysis Services" -> Analysis_Services_row(st, wb, row)
      [] sheet = "Analysis Profiles" -> Analysis_Profiles_row(st, row)
      [] sheet = "Worksheet Templates" -> Worksheet_Templates_row(st, row)
      [] sheet = "Invoice Batches" -> Invoice_Batches_row(st, row)

Import_end(sheet, st, wb) ==
    CASE sheet = "Lab Contacts" -> Lab_Contacts_end(st, wb)
      [] sheet = "Calculations" -> Calculations_end(st, wb)
      [] sheet = "Analysis Services" -> Analysis_Services_end(st, wb)
      [] OTHER -> st

-----------------------------------------------------------------------------
(* WorksheetImporter.__call__ *)

except_Exception(st) ==
    IF st.raised # NoExc
    THEN Log([st EXCEPT !.raised = NoExc], "warning",
             "Error while loading attached file")
    ELSE st

(* The except clause around self.Import(): an IOError ends the importer    *)
(* with a warning, any other exception goes on to the caller.              *)
except_IOError(st) ==
    IF st.raised.type = "IOError"
    THEN Log([st EXCEPT !.raised = NoExc], "warning",
             "Error while loading attached file")
    ELSE st

worksheet_missing_raises(st) ==
    Raise(st, "KeyError", st.self.sheetname)

(* workbook[self.sheetname] raised KeyError: self.worksheet is None and    *)
(* the absence is logged.                                                  *)
worksheet_missing(st) ==
    Log(st, "info", "No records found")

-----------------------------------------------------------------------------
(* The import run: the importers in their order, then the resolution of    *)
(* the deferred relations.                                                 *)

ImporterOrder ==
    <<"Sub Groups", "Lab Contacts", "Lab Departments", "Clients",
      "Client Contacts", "Containers", "Instruments",
      "Instrument Certifications", "Calculations", "Methods",
      "Analysis Services", "Analysis Profiles", "Worksheet Templates",
      "Invoice Batches">>

(* The order in which the services come before the methods. *)
ServicesFirst ==
    <<"Sub Groups", "Lab Contacts", "Lab Departments", "Clients",
      "Client Contacts", "Containers", "Instruments",
      "Instrument Certifications", "Calculations", "Analysis Services",
      "Methods", "Analysis Profiles", "Worksheet Templates",
      "Invoice Batches">>

(* An order in which the departments come before the lab contacts and the  *)
(* methods before the calculations.                                        *)
DetailsFirst ==
    <<"Sub Groups", "Lab Departments", "Lab Contacts", "Clients",
      "Client Contacts", "Containers", "Instruments",
      "Instrument Certifications", "Methods", "Calculations",
      "Analysis Services", "Analysis Profiles", "Worksheet Templates",
      "Invoice Batches">>

(* The key a deferred query selects on, next to the portal type. *)
QueryKey(q) == CHOOSE k \in DOMAIN q \ {"portal_type"} : TRUE

(* The objects the catalog returns for the query of a deferred relation. *)
Matches(p, d) ==
    catalog(p, d.dest_query.portal_type, QueryKey(d.dest_query),
            d.dest_query[QueryKey(d.dest_query)])

Reference(d, dest) ==
    [src_obj |-> d.src_obj, src_field |-> d.src_field, dest |-> dest.UID]

Unresolved == [level |-> "warning", msg |-> "Unresolved relation",
               sheet |-> ""]

RECURSIVE solve_deferred_first_match(_, _, _, _, _)
solve_deferred_first_match(p, d, r, l, i) ==
    IF i > Len(d) THEN [refs |-> r, log |-> l]
    ELSE IF Len(Matches(p, d[i])) >= 1
    THEN solve_deferred_first_match(
            p, d, r \cup {Reference(d[i], Matches(p, d[i])[1])}, l, i + 1)
    ELSE solve_deferred_first_match(p, d, r, Append(l, Unresolved), i + 1)

(* The resolution pass, record by record: the field is set when the query  *)
(* matches exactly one object, a warning is logged otherwise.              *)
RECURSIVE solve_deferred(_, _, _, _, _)
solve_deferred(p, d, r, l, i) ==
    IF i > Len(d) THEN [refs |-> r, log |-> l]
    ELSE IF Len(Matches(p, d[i])) = 1
    THEN solve_deferred(p, d, r \cup {Reference(d[i], Matches(p, d[i])[1])},
                        l, i + 1)
    ELSE solve_deferred(p, d, r, Append(l, Unresolved), i + 1)

Sheet == order[pc]

Cur == State(portal, deferred, log, users, uid, NoExc, self, events)

Commit(st) ==
    /\ portal' = st.portal
    /\ deferred' = st.deferred
    /\ log' = st.log
    /\ users' = st.users
    /\ uid' = st.uid
    /\ raised' = st.raised
    /\ self' = st.self
    /\ events' = st.events

NextImporter ==
    /\ pc' = pc + 1
    /\ row_nr' = 1
    /\ phase' = IF pc = Len(order) THEN "resolve" ELSE "call"

Aborted ==
    /\ phase' = "aborted"
    /\ UNCHANGED <<pc, row_nr>>

(* An importer is called: without its sheet it only logs; with it, Import  *)
(* runs up to its loop over the rows.                                      *)
Call ==
    /\ phase = "call"
    /\ LET st0 == [Cur EXCEPT !.self = [NoSelf EXCEPT !.sheetname = Sheet]]
           raw == Import_begin(Sheet, Log(st0, "info", "Loading"), workbook)
           st == except_IOError(raw)
       IN IF Sheet \notin DOMAIN workbook
          THEN /\ Commit(worksheet_missing(st0))
               /\ IF worksheet_missing(st0).raised # NoExc
                  THEN Aborted ELSE NextImporter
          ELSE /\ Commit(st)
               /\ IF st.raised # NoExc THEN Aborted
                  ELSE IF raw.raised # NoExc THEN NextImporter
                  ELSE /\ phase' = "rows"
                       /\ row_nr' = 1
                       /\ UNCHANGED pc
    /\ UNCHANGED <<workbook, files, rejected, refs, run, order, reader,
                   aside>>

(* One pass of the body of the loop over the rows of the sheet. *)
Row ==
    /\ phase = "rows"
    /\ row_nr <= Len(workbook[Sheet])
    /\ LET raw == Import_row(Sheet, Cur, workbook, files, rejected,
                             workbook[Sheet][row_nr])
           st == except_IOError(raw)
       IN /\ Commit(st)
          /\ IF st.raised # NoExc THEN Aborted
             ELSE IF raw.raised # NoExc THEN NextImporter
             ELSE /\ row_nr' = row_nr + 1
                  /\ UNCHANGED <<pc, phase>>
    /\ UNCHANGED <<workbook, files, rejected, refs, run, order, reader,
                   aside>>

(* The rows are exhausted: the rest of Import, and the return of __call__. *)
Finish ==
    /\ phase = "rows"
    /\ row_nr > Len(workbook[Sheet])
    /\ LET st == except_IOError(Import_end(Sheet, Cur, workbook))
       IN /\ Commit(st)
          /\ IF st.raised # NoExc THEN Aborted ELSE NextImporter
    /\ UNCHANGED <<workbook, files, rejected, refs, run, order, reader,
                   aside>>

(* After the last importer: the deferred relations are resolved. *)
Resolve ==
    /\ phase = "resolve"
    /\ LET r == solve_deferred(portal, deferred, refs, log, 1)
       IN /\ refs' = r.refs
          /\ log' = r.log
    /\ phase' = "done"
    /\ UNCHANGED <<workbook, files, rejected, portal, deferred, users, uid,
                   raised, self, pc, row_nr, run, order, events, reader,
                   aside>>

(* The same workbook is imported again into the site as it is now, with a  *)
(* fresh worklist.                                                         *)
Rerun ==
    /\ phase = "done"
    /\ run < MaxRuns
    /\ run' = run + 1
    /\ pc' = 1
    /\ row_nr' = 1
    /\ phase' = "call"
    /\ deferred' = <<>>
    /\ self' = NoSelf
    /\ UNCHANGED <<workbook, files, rejected, portal, refs, users, log, uid,
                   raised, order, events, reader,
                   aside>>

Next == Call \/ Row \/ Finish \/ Resolve \/ Rerun


-----------------------------------------------------------------------------
(* The workbooks, dataset directories and registration tools of the model *)

RowsOf(S) == SeqsUpTo(S, MaxRows)

Sub_Groups_rows ==
    {[title |-> t, description |-> "", SortKey |-> ""] :
        t \in {"", "SG1", "SG2"}}

Clients_rows ==
    {[Name |-> n, ClientID |-> c, MemberDiscountApplies |-> "",
      BulkDiscount |-> "1", EmailAddress |-> ""] :
        n \in {"", "Acme", "Beta"}, c \in {"", "C1"}}

Containers_rows ==
    {[title |-> t, description |-> "", Capacity |-> "",
      PrePreserved |-> StrValue(<<>>),
      ContainerType_title |-> "", Preservation_title |-> "Cool"] :
        t \in {"", "Jar", "Vial"}}

Invoice_Batches_rows ==
    {[title |-> t, start |-> s, end |-> e] :
        t \in {"", "May"}, s \in {"", "2020-05-01"}, e \in {"", "2020-05-31"}}

SimpleWorkbooks ==
    {EmptyMap}
    \cup {"Sub Groups" :> rows : rows \in RowsOf(Sub_Groups_rows)}
    \cup {"Clients" :> rows : rows \in RowsOf(Clients_rows)}
    \cup {"Containers" :> rows : rows \in RowsOf(Containers_rows)}
    \cup {"Invoice Batches" :> rows : rows \in RowsOf(Invoice_Batches_rows)}

Instrument(title, photo, cert, manual) ==
    [title |-> title, Type |-> "Scale", Brand |-> "", Supplier |-> "",
     Photo |-> photo, InstalationCertificate |-> cert,
     UserManualFile |-> manual]

Instruments_rows ==
    {Instrument("", "photo", "", ""), Instrument("I1", "", "", ""),
     Instrument("I1", "photo", "", ""), Instrument("I1", "", "cert", ""),
     Instrument("I2", "", "", "manual"),
     Instrument("I2", "photo", "cert", "manual")}

Certification(instrument, title, report) ==
    [instrument |-> instrument, title |-> title, report |-> report]

InstrumentWorkbooks ==
    {("Instruments" :> rows) @@ cert :
        rows \in RowsOf(Instruments_rows),
        cert \in {EmptyMap,
                  "Instrument Certifications" :>
                    <<Certification("I1", "ISO", "report")>>,
                  "Instrument Certifications" :>
                    <<Certification("I1", "", "report"),
                      Certification("I1", "ISO", ""),
                      Certification("I2", "ISO", "report")>>}}

InstrumentFiles ==
    {{}, {<<"photo", "jpg">>, <<"report", "PDF">>},
     {<<"photo", "">>, <<"cert", "pdf">>, <<"manual", "exe">>}}

LabContact(first, username, email, password, signature, groups, dept) ==
    [Firstname |-> first, Surname |-> "Lee", Username |-> username,
     EmailAddress |-> email, Password |-> password, Signature |-> signature,
     Groups |-> groups, Roles |-> groups, Department_title |-> dept]

Lab_Contacts_rows ==
    {LabContact("Ann", "ann", "a@lab", "secret", "", <<"LabManager">>, "Chem"),
     LabContact("", "ann", "a@lab", "secret", "sig", <<"LabManager">>, "Chem"),
     LabContact("Ann", "", "", "", "sig", <<>>, ""),
     LabContact("Bob", "bob", "b@lab", "secret", "sig", <<>>, "Chem"),
     LabContact("Ann", "ann", "a@lab", "", "sig", <<"Analysts">>, "Bio")}

Department(title, username) ==
    [title |-> title, description |-> "", LabContact_Username |-> username]

LabWorkbooks ==
    {("Lab Contacts" :> rows) @@ depts :
        rows \in RowsOf(Lab_Contacts_rows),
        depts \in {EmptyMap, "Lab Departments" :> <<>>,
                   "Lab Departments" :> <<Department("Chem", "ann")>>,
                   "Lab Departments" :> <<Department("", "ann"),
                                          Department("Chem", "bob")>>}}

(* First names and surnames are drawn from disjoint sets, so that a pair   *)
(* of names stands for one full name.                                      *)
ClientContact(first, last, client, username, cc) ==
    [Firstname |-> first, Surname |-> last, Client_title |-> client,
     Username |-> username, Password |-> "secret", EmailAddress |-> "",
     CCContacts |-> cc]

Client_Contacts_rows ==
    {ClientContact("John", "Doe", "Acme", "john", <<>>),
     ClientContact("Jane", "Roe", "Acme", "",
                   <<Fullname("John", "Doe"), Fullname("Max", "Poe")>>),
     ClientContact("", "", "Acme", "john", <<Fullname("John", "Doe")>>),
     ClientContact("John", "Doe", "Beta", "john",
                   <<Fullname("John", "Doe"), Fullname("Jane", "Roe")>>),
     ClientContact("", "Poe", "Acme", "", <<>>),
     ClientContact("Jane", "", "Nemo", "jane", <<>>)}

Client(name) ==
    [Name |-> name, ClientID |-> name, MemberDiscountApplies |-> "",
     BulkDiscount |-> "", EmailAddress |-> ""]

ContactWorkbooks ==
    {("Clients" :> <<Client("Acme"), Client("Beta")>>)
        @@ ("Client Contacts" :> rows) :
        rows \in RowsOf(Client_Contacts_rows)
                 \cup {<<ClientContact("John", "Doe", "Acme", "john", <<>>),
                         ClientContact("John", "Doe", "Beta", "john",
                                       <<Fullname("John", "Doe"),
                                         Fullname("Jane", "Roe")>>),
                         ClientContact("Jane", "Roe", "Acme", "",
                                       <<Fullname("John", "Doe"),
                                         Fullname("Max", "Poe")>>)>>}}

Alphabet == {"[", "]", "A", "."}

Formulas ==
    SeqsUpTo(Alphabet, MaxFormula)
    \cup {<<"[", "A", "]", "+", "[", "B", "]">>,
          <<"[", "B", "]", "*", "[", "B", "]">>,
          <<"[", "A", "^", "B", "]", "[", "B", ".", "A", "]">>,
          <<"[", "[", "B", "]", "]", "[", "A", "A", "]">>}

Calculation(title, formula) ==
    [title |-> title, description |-> "", Formula |-> formula]

Interim(calc, keyword) ==
    [Calculation_title |-> calc, keyword |-> keyword, title |-> "",
     hidden |-> "", value |-> "", unit |-> ""]

Service(title, keyword) ==
    [title |-> title, Keyword |-> keyword, AnalysisCategory_title |-> "",
     Department_title |-> "", DefaultMethod_title |-> "",
     DefaultInstrument_title |-> "", Calculation_title |-> "Calc",
     ManualEntryOfResults |-> ""]

ServiceSheets ==
    ("AnalysisService InterimFields" :> <<>>)
    @@ ("AnalysisService Methods" :> <<>>)
    @@ ("AnalysisService Instruments" :> <<>>)
    @@ ("AnalysisService ResultOptions" :> <<>>)
    @@ ("Analysis Service Uncertainties" :> <<>>)

Without(wb, sheet) == [n \in DOMAIN wb \ {sheet} |-> wb[n]]

CalculationWorkbooks ==
    {("Calculations" :> <<Calculation("Calc", f)>>)
        @@ ("Calculation Interim Fields" :> interims)
        @@ ("Methods" :> <<>>)
        @@ ("Instrument Methods" :> <<>>)
        @@ ("Analysis Services" :> <<Service("Boron", <<"B">>),
                                     Service("Argon", <<"A">>)>>)
        @@ ServiceSheets :
        f \in Formulas,
        interims \in {<<>>, <<Interim("Calc", <<"A">>),
                              Interim("Other", <<"B">>)>>}}
    \cup {("Calculations" :> rows) @@ aux :
            rows \in {<<Calculation("", <<"[", "A", "]">>),
                        Calculation("Calc", <<"[", "A", "]">>),
                        Calculation("Calc", <<"[", "B", "]">>)>>},
            aux \in {EmptyMap, "Calculation Interim Fields" :> <<>>,
                     ("Calculation Interim Fields" :> <<>>)
                        @@ ("Methods" :> <<>>)}}

Analysis_Services_rows ==
    {Service("Argon", <<"A">>), Service("", <<"A">>),
     Service("Argon", <<>>), Service("Neon", <<"A">>)}

ServiceWorkbooks ==
    {("Analysis Services" :> rows) @@ aux :
        rows \in RowsOf(Analysis_Services_rows),
        aux \in {ServiceSheets,
                 Without(ServiceSheets, "AnalysisService InterimFields"),
                 Without(ServiceSheets, "AnalysisService Methods")}}

Method(title) ==
    [title |-> title, description |-> "", Calculation_title |-> "",
     Instrument_title |-> "", MethodDocument |-> ""]

ServiceWith(title, keyword, method, instrument) ==
    [Service(title, keyword) EXCEPT !.DefaultMethod_title = method,
                                    !.DefaultInstrument_title = instrument,
                                    !.Calculation_title = ""]

(* A row of a relation sheet: a service and the method or instrument of    *)
(* the column.                                                             *)
Relation(service, column, title) ==
    ("Service_title" :> service) @@ (column :> title)

MethodRelations ==
    {<<>>, <<Relation("Argon", "Method_title", "M2")>>,
     <<Relation("Argon", "Method_title", "M1"),
       Relation("Argon", "Method_title", "M2")>>,
     <<Relation("Neon", "Method_title", "M2"),
       Relation("", "Method_title", "M1"),
       Relation("Argon", "Method_title", "M2")>>,
     <<Relation("Argon", "Method_title", "M9")>>}

InstrumentRelations ==
    {<<>>, <<Relation("Argon", "Instrument_title", "I2")>>,
     <<Relation("Argon", "Instrument_title", "I1"),
       Relation("Neon", "Instrument_title", "I1")>>}

RelationWorkbooks ==
    {("Instruments" :> <<Instrument("I1", "", "", ""),
                         Instrument("I2", "", "", "")>>)
        @@ ("Methods" :> <<Method("M1"), Method("M2")>>)
        @@ ("Instrument Methods" :> <<>>)
        @@ ("Analysis Services" :> rows)
        @@ ("AnalysisService Methods" :> methods)
        @@ ("AnalysisService Instruments" :> instruments)
        @@ ServiceSheets :
        rows \in {<<ServiceWith("Argon", <<"A">>, m, i)>> :
                    m \in {"", "M1", "M9"}, i \in {"", "I1"}}
                 \cup {<<ServiceWith("Argon", <<"A">>, "M1", "I1"),
                         ServiceWith("Neon", <<"N">>, "M1", "")>>},
        methods \in MethodRelations,
        instruments \in InstrumentRelations}

(* A service with or without a default instrument, with the manual entry   *)
(* of results left empty, refused, allowed, or with no such column.        *)
EntryWorkbooks ==
    {("Instruments" :> <<Instrument("I1", "", "", "")>>)
        @@ ("Analysis Services" :> <<row>>)
        @@ ServiceSheets :
        row \in {[ServiceWith("Argon", <<"A">>, "", i)
                    EXCEPT !.ManualEntryOfResults = m] :
                    i \in {"", "I1"}, m \in {"", "0", "1"}}
                 \cup {Without(ServiceWith("Argon", <<"A">>, "", i),
                               "ManualEntryOfResults") : i \in {"", "I1"}}}

MethodOf(title, calculation) ==
    [Method(title) EXCEPT !.Calculation_title = calculation]

(* Departments that name a manager and methods that name a calculation,    *)
(* some of them on two rows with different names, some with a name nothing *)
(* has.                                                                     *)
SecondPassWorkbooks ==
    {("Lab Contacts" :>
            <<LabContact("Ann", "ann", "a@lab", "secret", "", <<>>, ""),
              LabContact("Bob", "bob", "b@lab", "secret", "", <<>>, "")>>)
        @@ ("Lab Departments" :> depts)
        @@ ("Calculations" :> <<Calculation("Calc", <<>>),
                                Calculation("Other", <<>>)>>)
        @@ ("Calculation Interim Fields" :> <<>>)
        @@ ("Methods" :> meths)
        @@ ("Instrument Methods" :> <<>>) :
        depts \in {<<Department("Chem", "ann"), Department("Chem", "bob")>>,
                   <<Department("Chem", "zed"), Department("Bio", "bob")>>},
        meths \in {<<MethodOf("M1", "Calc"), MethodOf("M1", "Other")>>,
                   <<MethodOf("M1", "Nope"), MethodOf("M2", "Other"),
                     MethodOf("M3", "")>>}}

ResultOption(service, value) ==
    [Service_title |-> service, ResultValue |-> value, ResultText |-> value]

(* Result options for the two services, with and without a row that names  *)
(* a service that does not exist.                                          *)
ResultOptionWorkbooks ==
    {("AnalysisService ResultOptions" :> rows)
        @@ ("Analysis Services" :> <<ServiceWith("Argon", <<"A">>, "", ""),
                                     ServiceWith("Neon", <<"N">>, "", "")>>)
        @@ ServiceSheets :
        rows \in {<<ResultOption("Argon", "1"), ResultOption("Neon", "2"),
                    ResultOption("Argon", "3")>>,
                  <<ResultOption("Argon", "1"), ResultOption("Xenon", "2"),
                    ResultOption("Neon", "3")>>,
                  <<ResultOption("Xenon", "1")>>}}

(* Two methods, each with or without a MethodID, the same or not. *)
MethodIDWorkbooks ==
    {("Methods" :> <<("MethodID" :> x) @@ Method("M1"),
                     ("MethodID" :> y) @@ Method("M2")>>)
        @@ ("Instrument Methods" :> <<>>) :
        x \in {"", "ID1"}, y \in {"", "ID1", "ID2"}}

(* The values of a boolean column: texts, numbers and booleans, as         *)
(* get_rows yields them.                                                   *)
BooleanCells ==
    {StrValue(s) : s \in {<<>>, <<"T", "R", "U", "E">>,
                          <<"t", "r", "u", "e">>, <<"T", "r", "u", "e">>,
                          <<"o", "n">>, <<"O", "N">>, <<"n", "o">>,
                          <<"1">>, <<"0">>, <<"2">>, <<"0", "1">>,
                          <<"+", "1">>, <<"-", "1">>, <<"1", ".", "0">>,
                          <<"t", "r", "u", "e", "r">>}}
    \cup {IntValue(n) : n \in {0 - 1, 0, 1, 2}}
    \cup {FloatValue(t) : t \in {0 - 15, 0, 5, 10, 15, 20}}
    \cup {BoolValue(b) : b \in BOOLEAN}

BooleanWorkbooks ==
    {"Containers" :>
        <<[title |-> "Jar", description |-> "", Capacity |-> "",
           PrePreserved |-> c, ContainerType_title |-> "",
           Preservation_title |-> ""],
          [title |-> "Vial", description |-> "", Capacity |-> "",
           ContainerType_title |-> "", Preservation_title |-> ""]>> :
        c \in BooleanCells}
    \cup {("Analysis Services" :>
                <<ServiceWith("Argon", <<"A">>, "", "")
                    @@ ("Separate" :> c)>>)
            @@ ServiceSheets : c \in BooleanCells}

Profile(title) == [title |-> title, description |-> "", ProfileKey |-> title]

ProfileService(profile, keyword) == [Profile |-> profile, Service |-> keyword]

Template(title) ==
    [title |-> title, description |-> "", Instrument_title |-> ""]

TemplateService(template, service) ==
    [WorksheetTemplate_title |-> template, service |-> service]

TemplateLayout(template, pos) ==
    [WorksheetTemplate_title |-> template, pos |-> pos, type |-> "a",
     blank_ref |-> "", control_ref |-> "", dup |-> ""]

(* Profiles and worksheet templates with and without child records on     *)
(* their detail sheets.                                                    *)
TemplateWorkbooks ==
    {("Analysis Services" :> <<ServiceWith("Argon", <<"A">>, "", "")>>)
        @@ ServiceSheets
        @@ ("Analysis Profiles" :> <<Profile("P1"), Profile("P2")>>)
        @@ ("Analysis Profile Services" :> ps)
        @@ ("Worksheet Templates" :> <<Template("W1"), Template("W2")>>)
        @@ ("Worksheet Template Services" :> ts)
        @@ ("Worksheet Template Layouts" :> tl) :
        ps \in {<<>>, <<ProfileService("P1", <<"A">>)>>,
                <<ProfileService("P1", <<"A">>),
                  ProfileService("P2", <<"Z">>)>>,
                <<ProfileService("P2", <<"A">>),
                  ProfileService("P1", <<"A">>),
                  ProfileService("", <<"A">>)>>},
        ts \in {<<>>, <<TemplateService("W1", "Argon"),
                        TemplateService("W2", "Argon")>>,
                <<TemplateService("W1", "Argon"),
                  TemplateService("W2", "Xenon")>>},
        tl \in {<<>>, <<TemplateLayout("W1", 1)>>,
                <<TemplateLayout("W1", 1), TemplateLayout("W2", 1),
                  TemplateLayout("W1", 2)>>}}

MaxUncertainties == 503

Uncertainty(service) ==
    ("Service_title" :> service) @@ ("Range Min" :> "0")
    @@ ("Range Max" :> "10") @@ ("Uncertainty Value" :> "1")

(* The i-th row of a long sheet: its value is one of three, in turn. *)
UncertaintyAt(service, i) ==
    ("Uncertainty Value" :> <<"1", "2", "3">>[(i % 3) + 1])
        @@ Uncertainty(service)

(* Sheets of uncertainty rows: short ones, and ones of about BucketFlush   *)
(* rows that name the two services in turn.                                *)
UncertaintyRows ==
    {<<Uncertainty("Argon")>>,
     <<Uncertainty("Argon"), Uncertainty("Xenon"), Uncertainty("Neon")>>,
     <<UncertaintyAt("Argon", 1), UncertaintyAt("Neon", 2),
       UncertaintyAt("Argon", 3), UncertaintyAt("Xenon", 4),
       UncertaintyAt("Argon", 5)>>}
    \cup {[i \in 1..n |->
                UncertaintyAt(IF i % 2 = 1 THEN "Argon" ELSE "Neon", i)] :
            n \in (BucketFlush - 1)..MaxUncertainties}
    \cup {[i \in 1..MaxUncertainties |->
                Uncertainty(IF i < BucketFlush THEN "Argon" ELSE "Xenon")]}

UncertaintyWorkbooks ==
    {("Analysis Services" :> <<ServiceWith("Argon", <<"A">>, "", ""),
                               ServiceWith("Neon", <<"N">>, "", "")>>)
        @@ ("Analysis Service Uncertainties" :> rows)
        @@ ServiceSheets :
        rows \in UncertaintyRows}

(* Object.get is not part of the importer: both behaviours are taken, for  *)
(* the workbooks where they differ (a method is given a MethodID).         *)
MethodGets(wb) ==
    IF /\ "Methods" \in DOMAIN wb
       /\ \E i \in 1..Len(wb["Methods"]) :
            /\ "MethodID" \in DOMAIN wb["Methods"][i]
            /\ wb["Methods"][i].MethodID # ""
    THEN {"field", "child"}
    ELSE {"child"}

(* No upgrade step and no form is in play. *)
NoAside ==
    /\ installed = <<0, 0, 0>>
    /\ invocations = 0
    /\ returned = <<>>
    /\ form = EmptyMap
    /\ dependencies = EmptyMap
    /\ settings = <<>>
    /\ query = <<>>
    /\ got = NoObj
    /\ method_get \in MethodGets(workbook)

(* An import run is about to start on an empty site, the importers in the  *)
(* order o.                                                                *)
StartInOrder(wb, fs, rej, o) ==
    /\ workbook = wb
    /\ files = fs
    /\ rejected = rej
    /\ portal = [f \in Folders |-> <<>>]
    /\ deferred = <<>>
    /\ refs = {}
    /\ users = NoUsers
    /\ log = <<>>
    /\ uid = 0
    /\ raised = NoExc
    /\ self = NoSelf
    /\ pc = 1
    /\ phase = "call"
    /\ row_nr = 1
    /\ run = 1
    /\ order = o
    /\ events = <<>>
    /\ worksheet = <<>>
    /\ startrow = 0
    /\ headers = <<>>
    /\ yielded = <<>>
    /\ calls = 0
    /\ NoAside

Start(wb, fs, rej) == StartInOrder(wb, fs, rej, ImporterOrder)

Init ==
    \/ \E wb \in SimpleWorkbooks : Start(wb, {}, {})
    \/ \E wb \in InstrumentWorkbooks, fs \in InstrumentFiles :
            Start(wb, fs, {})
    \/ \E wb \in LabWorkbooks, fs \in {{}, {<<"sig", "">>}},
          rej \in {{}, {"ann"}} : Start(wb, fs, rej)
    \/ \E wb \in ContactWorkbooks, rej \in {{}, {"john"}} :
            Start(wb, {}, rej)
    \/ \E wb \in CalculationWorkbooks : Start(wb, {}, {})
    \/ \E wb \in ServiceWorkbooks : Start(wb, {}, {})
    \/ \E wb \in BooleanWorkbooks : Start(wb, {}, {})
    \/ \E wb \in TemplateWorkbooks : Start(wb, {}, {})
    \/ \E wb \in MethodIDWorkbooks : Start(wb, {}, {})
    \/ \E wb \in EntryWorkbooks : Start(wb, {}, {})
    \/ \E wb \in ResultOptionWorkbooks : Start(wb, {}, {})
    \/ \E wb \in SecondPassWorkbooks, o \in {ImporterOrder, DetailsFirst} :
            StartInOrder(wb, {}, {}, o)
    \/ \E wb \in UncertaintyWorkbooks : Start(wb, {}, {})
    \/ \E wb \in RelationWorkbooks, o \in {ImporterOrder, ServicesFirst} :
            StartInOrder(wb, {}, {}, o)

Spec == Init /\ [][Next]_vars

-----------------------------------------------------------------------------
(* The workbook reader: get_rows *)

AddressTypes == {"Physical", "Postal", "Billing"}

AddressKeys == {"Address", "City", "State", "District", "Zip", "Country"}

DigitChars == <<"0", "1", "2", "3", "4", "5", "6", "7", "8", "9">>

RECURSIVE DecimalText(_)
DecimalText(n) ==
    IF n < 10 THEN <<DigitChars[n + 1]>>
    ELSE Append(DecimalText(n \div 10), DigitChars[(n % 10) + 1])

(* str(value): a str is itself; a number is its decimal text, a float with *)
(* one decimal; a bool is "True" or "False".                               *)
str(value) ==
    CASE value.type = "str" -> value
      [] value.type = "unicode" -> StrValue(value.value)
      [] value.type = "int" ->
            StrValue(IF value.value < 0
                     THEN <<"-">> \o DecimalText(0 - value.value)
                     ELSE DecimalText(value.value))
      [] value.type = "float" ->
            LET t == IF value.value < 0 THEN 0 - value.value ELSE value.value
            IN StrValue((IF value.value < 0 THEN <<"-">> ELSE <<>>)
                        \o DecimalText(t \div 10) \o <<".">>
                        \o DecimalText(t % 10))
      [] value.type = "bool" ->
            StrValue(IF value.value THEN <<"T", "r", "u", "e">>
                     ELSE <<"F", "a", "l", "s", "e">>)
      [] OTHER -> StrValue(<<"N", "o", "n", "e">>)

(* A reader that does not strip the texts. *)
cell_value_unstripped(value) ==
    IF value.type = "NoneType" THEN StrValue(<<>>) ELSE str(value)

(* The value get_rows puts in new_row for a cell: '' for None, a unicode   *)
(* text encoded, a str stripped; any other value as it is.                 *)
cell_value(value) ==
    LET present == IF value.type = "NoneType" THEN StrValue(<<>>) ELSE value
        encoded == IF present.type = "unicode" THEN encode(present)
                   ELSE present
    IN IF encoded.type = "str"
       THEN StrValue(strip(encoded.value, Whitespace))
       ELSE encoded

(* dict(zip(headers, new_row)): the pairs up to the shorter length; of two *)
(* columns with the same header the later one stays.                       *)
zip_dict(keys, values) ==
    LET n == IF Len(keys) < Len(values) THEN Len(keys) ELSE Len(values)
    IN [k \in {keys[i] : i \in 1..n} |->
            values[CHOOSE i \in 1..n :
                      keys[i] = k /\ \A j \in (i + 1)..n : keys[j] # k]]

(* A reader that fills the sub-keys of every address. *)
address_always(row, add_type) ==
    [key \in AddressKeys |->
        str(Get(row, add_type \o "_" \o key, StrValue(<<>>)))]

(* row[add_type]: the six sub-keys when the row has the column             *)
(* <add_type>_Address, the empty mapping otherwise.                        *)
address(row, add_type) ==
    IF (add_type \o "_Address") \in DOMAIN row
    THEN [key \in AddressKeys |->
            str(Get(row, add_type \o "_" \o key, StrValue(<<>>)))]
    ELSE EmptyMap

(* The mapping get_rows yields for a row of cells. *)
row_mapping(keys, cells) ==
    LET row == zip_dict(keys, [i \in 1..Len(cells) |-> cell_value(cells[i])])
    IN [k \in DOMAIN row \cup AddressTypes |->
            IF k \in AddressTypes THEN address(row, k) ELSE row[k]]

(* A reader that takes the savepoint after the row. *)
savepoint_after(e, nr) ==
    IF nr % SavepointEvery = 1 /\ nr > 1
    THEN Append(e, [type |-> "savepoint", obj |-> nr - 1])
    ELSE e

(* if row_nr % 1000 == 0: transaction.savepoint() *)
savepoint(e, nr) ==
    IF nr % SavepointEvery = 0
    THEN Append(e, [type |-> "savepoint", obj |-> nr])
    ELSE e

(* A reader that yields the row numbered startrow as well. *)
skipped_before(nr, start) == nr < start

(* if row_nr <= startrow: continue *)
skipped(nr, start) == nr <= start

(* The first row of the sheet is read: its cell values are the headers. *)
ReadHeader ==
    /\ phase = "reading"
    /\ row_nr < Len(worksheet)
    /\ row_nr + 1 = 1
    /\ row_nr' = row_nr + 1
    /\ headers' = worksheet[1]
    /\ UNCHANGED <<workbook, files, rejected, portal, deferred, refs, users,
                   log, uid, raised, self, pc, phase, run, order, events,
                   worksheet, startrow, yielded, calls, aside>>

(* A row at or before startrow is read and passed over. *)
SkipRow ==
    /\ phase = "reading"
    /\ row_nr < Len(worksheet)
    /\ row_nr + 1 # 1
    /\ skipped(row_nr + 1, startrow)
    /\ row_nr' = row_nr + 1
    /\ events' = savepoint(events, row_nr + 1)
    /\ UNCHANGED <<workbook, files, rejected, portal, deferred, refs, users,
                   log, uid, raised, self, pc, phase, run, order, reader,
                   aside>>

(* A row after startrow is read and its mapping yielded. *)
YieldRow ==
    /\ phase = "reading"
    /\ row_nr < Len(worksheet)
    /\ row_nr + 1 # 1
    /\ ~skipped(row_nr + 1, startrow)
    /\ row_nr' = row_nr + 1
    /\ events' = Append(savepoint(events, row_nr + 1),
                        [type |-> "yield", obj |-> row_nr + 1])
    /\ yielded' = Append(yielded,
                         row_mapping(headers, worksheet[row_nr + 1]))
    /\ UNCHANGED <<workbook, files, rejected, portal, deferred, refs, users,
                   log, uid, raised, self, pc, phase, run, order,
                   worksheet, startrow, headers, calls, aside>>

(* The rows of the sheet are used up: the generator ends. *)
Exhaust ==
    /\ phase = "reading"
    /\ row_nr = Len(worksheet)
    /\ phase' = "exhausted"
    /\ UNCHANGED <<workbook, files, rejected, portal, deferred, refs, users,
                   log, uid, raised, self, pc, row_nr, run, order, events,
                   reader, aside>>

(* get_rows is called again on the same worksheet; the trace of the new   *)
(* call starts empty.                                                      *)
CallAgain ==
    /\ phase = "exhausted"
    /\ calls < MaxCalls
    /\ calls' = calls + 1
    /\ phase' = "reading"
    /\ row_nr' = 0
    /\ headers' = <<>>
    /\ yielded' = <<>>
    /\ events' = <<>>
    /\ UNCHANGED <<workbook, files, rejected, portal, deferred, refs, users,
                   log, uid, raised, self, pc, run, order, worksheet,
                   startrow, aside>>

(* Cells of a sheet: absent, texts with and without white space around     *)
(* them, numbers and booleans.                                             *)
Cells ==
    {None, StrValue(<<>>), StrValue(<<"a">>), StrValue(<<" ", "a", "\t">>),
     StrValue(<<"\n", "a", " ", "b", "\r">>), StrValue(<<" ", "\t">>),
     UnicodeValue(<<"a", " ">>), IntValue(1), IntValue(0 - 12),
     FloatValue(15), BoolValue(TRUE)}

HeaderRows ==
    {<<"title", "Physical_Address">>,
     <<"title", "Physical_City">>,
     <<"Postal_Address", "Postal_Zip">>,
     <<"title", "title">>,
     <<"Billing_Address", "Billing_Country">>}

(* Small sheets: a header row, two rows of labels and up to two data rows. *)
SmallSheets ==
    {<<h>> : h \in HeaderRows}
    \cup {<<h, <<StrValue(<<"x">>), StrValue(<<>>)>>, <<c, d>>, <<d, c>>>> :
            h \in HeaderRows, c \in Cells,
            d \in {None, StrValue(<<" ", "b">>), IntValue(7)}}
    \cup {<<h, <<None, None>>, <<None, None>>, <<c, None>>,
             <<StrValue(<<"z">>), c>>>> :
            h \in HeaderRows, c \in Cells}
    \cup {<<>>}

(* Long sheets of one column, around the rows where savepoints are due. *)
LongSheets ==
    {[i \in 1..n |-> IF i = 1 THEN <<"title">> ELSE <<IntValue(i % 7)>>] :
        n \in {SavepointEvery - 1, SavepointEvery, 2 * SavepointEvery,
                MaxSheetRows}}

StartReading(ws, start) ==
    /\ workbook = EmptyMap
    /\ files = {}
    /\ rejected = {}
    /\ portal = [f \in Folders |-> <<>>]
    /\ deferred = <<>>
    /\ refs = {}
    /\ users = NoUsers
    /\ log = <<>>
    /\ uid = 0
    /\ raised = NoExc
    /\ self = NoSelf
    /\ pc = 1
    /\ phase = "reading"
    /\ row_nr = 0
    /\ run = 1
    /\ order = ImporterOrder
    /\ events = <<>>
    /\ worksheet = ws
    /\ startrow = start
    /\ headers = <<>>
    /\ yielded = <<>>
    /\ calls = 1
    /\ NoAside

ReaderInit ==
    \/ \E ws \in SmallSheets, start \in 0..4 : StartReading(ws, start)
    \/ \E ws \in LongSheets, start \in {SavepointEvery - 1, SavepointEvery} :
            StartReading(ws, start)

ReaderNext == ReadHeader \/ SkipRow \/ YieldRow \/ Exhaust \/ CallAgain

ReaderSpec == ReaderInit /\ [][ReaderNext]_vars


-----------------------------------------------------------------------------
(* The upgrade steps: v02_02_000 and v02_05_000 *)

Version_2_2_0 == <<2, 2, 0>>

Version_2_5_0 == <<2, 5, 0>>

(* a is an earlier version than b. *)
VersionLess(a, b) ==
    \/ a[1] < b[1]
    \/ a[1] = b[1] /\ a[2] < b[2]
    \/ a[1] = b[1] /\ a[2] = b[2] /\ a[3] < b[3]

(* A gate that skips only when the installed version is past the target. *)
isOlderVersion_past(iver, version) == VersionLess(version, iver)

(* ut.isOlderVersion(product, version): the installed version is already   *)
(* at or past the version of the step.                                     *)
isOlderVersion(iver, version) == ~VersionLess(iver, version)

(* A scan that keeps the last calculation titled "Correction". *)
RECURSIVE correction_last(_, _, _)
correction_last(p, calculations, c) ==
    IF c > Len(calculations) THEN NoObj
    ELSE LET later == correction_last(p, calculations, c + 1)
             calc == p["bika_calculations"][
                        IndexOf(p["bika_calculations"], calculations[c])]
         IN IF Found(later) THEN later
            ELSE IF calc.title = "Correction" THEN calc ELSE NoObj

(* for c, calc in enumerate(meth.getCalculations()): the first calculation *)
(* titled "Correction".                                                    *)
RECURSIVE correction(_, _, _)
correction(p, calculations, c) ==
    IF c > Len(calculations) THEN NoObj
    ELSE LET calc == p["bika_calculations"][
                        IndexOf(p["bika_calculations"], calculations[c])]
         IN IF calc.title = "Correction" THEN calc
            ELSE correction(p, calculations, c + 1)

(* for m, meth in enumerate(methods): the first method with such a         *)
(* calculation gives the default calculation.                              *)
RECURSIVE defaultcalculation(_, _, _)
defaultcalculation(p, methods, m) ==
    IF m > Len(methods) THEN NoObj
    ELSE LET meth == p["methods"][IndexOf(p["methods"], methods[m])]
             found == correction(p, meth.Calculations, 1)
         IN IF Found(found) THEN found
            ELSE defaultcalculation(p, methods, m + 1)

(* The body of the loop over the analysis services. *)
migrate_service(st, k) ==
    LET obj == st.portal["bika_analysisservices"][k]
        calc == defaultcalculation(st.portal, obj.Methods, 1)
        s1 == Log(Log(st, "info", "calculation is"), "info",
                  "Method calculation is")
        s2 == Event([s1 EXCEPT !.portal["bika_analysisservices"][k]
                                    .Calculation = calc.UID],
                    "setCalculation", obj.UID)
    IN IF Found(calc)
       THEN Log(Event(s2, "ObjectEditedEvent", obj.UID), "info",
                "Migrate AnalysisService Calculation field")
       ELSE st

RECURSIVE migrate_services(_, _)
migrate_services(st, k) ==
    IF k > Len(st.portal["bika_analysisservices"]) THEN st
    ELSE migrate_services(migrate_service(st, k), k + 1)

migrate_calculations_of_analysisservice(st) ==
    Log(migrate_services(
            Log(st, "info", "Migrate AnalysisService Calculation field"), 1),
        "info", "Migrate AnalysisService Calculation field [DONE]")

(* v02_02_000.upgrade *)
upgrade_2_2_0(st, iver) ==
    IF isOlderVersion(iver, Version_2_2_0)
    THEN Log(st, "info", "Skipping upgrade")
    ELSE Log(migrate_calculations_of_analysisservice(
                Event(Log(st, "info", "Upgrading"),
                      "runImportStepFromProfile", 0)),
             "info", "upgraded to version")

(* v02_05_000.upgrade *)
upgrade_2_5_0(st, iver) ==
    IF isOlderVersion(iver, Version_2_5_0)
    THEN Log(st, "info", "Skipping upgrade")
    ELSE Log(Log(st, "info", "Upgrading"), "info", "upgraded to version")

(* The upgradestep decorator: once the step has run, the installed version *)
(* is the version of the step.                                             *)
upgradestep(iver, version) ==
    IF isOlderVersion(iver, version) THEN iver ELSE version

Invoked ==
    /\ phase = "upgrade"
    /\ invocations < MaxInvocations
    /\ invocations' = invocations + 1
    /\ UNCHANGED <<workbook, files, rejected, refs, pc, phase, row_nr, run,
                   order, reader, form, dependencies, settings, query,
                   got, method_get>>

Upgrade_2_2_0 ==
    /\ Invoked
    /\ Commit(upgrade_2_2_0(Cur, installed))
    /\ installed' = upgradestep(installed, Version_2_2_0)
    /\ returned' = Append(returned, TRUE)

Upgrade_2_5_0 ==
    /\ Invoked
    /\ Commit(upgrade_2_5_0(Cur, installed))
    /\ installed' = upgradestep(installed, Version_2_5_0)
    /\ returned' = Append(returned, TRUE)

(* The migration is called on its own (it returns nothing). *)
Migrate ==
    /\ Invoked
    /\ Commit(migrate_calculations_of_analysisservice(Cur))
    /\ UNCHANGED <<installed, returned>>

Calc(u, title) == [portal_type |-> "Calculation", UID |-> u, title |-> title]

Meth(u, calculations) ==
    [portal_type |-> "Method", UID |-> u, Calculations |-> calculations]

Serv(u, methods, calculation) ==
    [portal_type |-> "AnalysisService", UID |-> u, Methods |-> methods,
     Calculation |-> calculation]

(* Sites with two services, two methods and three calculations, two of     *)
(* them titled "Correction".                                               *)
Sites ==
    {[f \in Folders |->
        CASE f = "bika_calculations" ->
                <<Calc(1, "Correction"), Calc(2, "Dilution"),
                  Calc(3, "Correction")>>
          [] f = "methods" -> <<Meth(4, c4), Meth(5, c5)>>
          [] f = "bika_analysisservices" ->
                <<Serv(6, m6, old), Serv(7, <<5>>, 0)>>
          [] OTHER -> <<>>] :
        c4 \in {<<>>, <<2>>, <<2, 3, 1>>},
        c5 \in {<<>>, <<2>>, <<1, 3>>},
        m6 \in {<<>>, <<4>>, <<4, 5>>, <<5, 4>>},
        old \in {0, 2}}

InstalledVersions ==
    {<<2, 1, 0>>, <<2, 2, 0>>, <<2, 4, 3>>, <<2, 5, 0>>, <<3, 0, 0>>}

UpgradeInit ==
    /\ workbook = EmptyMap
    /\ files = {}
    /\ rejected = {}
    /\ portal \in Sites
    /\ deferred = <<>>
    /\ refs = {}
    /\ users = NoUsers
    /\ log = <<>>
    /\ uid = 7
    /\ raised = NoExc
    /\ self = NoSelf
    /\ pc = 1
    /\ phase = "upgrade"
    /\ row_nr = 0
    /\ run = 1
    /\ order = ImporterOrder
    /\ events = <<>>
    /\ worksheet = <<>>
    /\ startrow = 0
    /\ headers = <<>>
    /\ yielded = <<>>
    /\ calls = 0
    /\ installed \in InstalledVersions
    /\ invocations = 0
    /\ returned = <<>>
    /\ form = EmptyMap
    /\ dependencies = EmptyMap
    /\ settings = <<>>
    /\ query = <<>>
    /\ got = NoObj
    /\ method_get = "child"

UpgradeNext == Upgrade_2_2_0 \/ Upgrade_2_5_0 \/ Migrate

UpgradeSpec == UpgradeInit /\ [][UpgradeNext]_vars

-----------------------------------------------------------------------------
(* The services widget of an analysis profile *)

(* d.get(k, default) of a dict. *)
dict_get(d, k, default) == IF k \in DOMAIN d THEN d[k] ELSE default

Range(seq) == {seq[i] : i \in 1..Len(seq)}

(* A form that hides every service it has a Hidden entry for. *)
hidden_present(hidden_services, service_uid) ==
    service_uid \in DOMAIN hidden_services

(* hidden_services.get(service_uid, "") == "on" *)
hidden(hidden_services, service_uid) ==
    dict_get(hidden_services, service_uid, "") = "on"

(* set(services + dependencies): the selected services and the             *)
(* dependencies of each of them, every object once.                        *)
services(service_uids, deps) ==
    Range(service_uids)
        \cup UNION {Range(deps[u]) : u \in Range(service_uids)}

(* The orders in which a set can be iterated. *)
Iterations(S) ==
    {seq \in [1..Cardinality(S) -> S] : Range(seq) = S}

(* as_settings, for the iteration of the set in the order given. *)
as_settings(iteration, hidden_services) ==
    [i \in 1..Len(iteration) |->
        [uid |-> iteration[i],
         hidden |-> hidden(hidden_services, iteration[i])]]

(* get_settings: UID -> setting; of two settings with one UID the later. *)
get_settings(s) ==
    [u \in {s[i].uid : i \in 1..Len(s)} |->
        s[CHOOSE i \in 1..Len(s) :
            /\ s[i].uid = u
            /\ \A j \in 1..Len(s) : s[j].uid = u => j <= i]]

(* get_configuration: UID -> configuration, for the services of the        *)
(* profile.                                                                *)
get_configuration(profile_services, s) ==
    [u \in Range(profile_services) |->
        [hidden |-> dict_get(dict_get(get_settings(s), u, EmptyMap),
                             "hidden", FALSE)]]

(* The forms: up to two selected services out of 1 and 2, one of them      *)
(* possibly selected twice, and Hidden entries for some of the services 1  *)
(* to 3, "on" or not; a form may lack either key.                          *)
Forms ==
    {EmptyMap}
        \cup {[uids |-> u] : u \in SeqsUpTo({1, 2}, 2)}
        \cup {[Hidden |-> h] : h \in {[x \in {3} |-> "on"]}}
        \cup {[uids |-> u, Hidden |-> h] :
                u \in SeqsUpTo({1, 2}, 2),
                h \in UNION {[U -> {"on", "off"}] : U \in SUBSET {1, 3}}}

(* getServiceDependencies() of the services 1 to 3. *)
ServiceDependencies ==
    {[u \in 1..3 |-> <<>>],
     [u \in 1..3 |-> IF u = 1 THEN <<3>> ELSE <<>>],
     [u \in 1..3 |-> IF u = 3 THEN <<>> ELSE <<3>>],
     [u \in 1..3 |-> IF u = 2 THEN <<1, 3>> ELSE <<>>]}

(* process_form: the form of the profile is submitted.  The set of         *)
(* services is iterated twice, unchanged in between, so both iterations    *)
(* run in one order, which is any order.                                   *)
Process_form ==
    /\ phase = "form"
    /\ invocations < MaxSubmissions
    /\ invocations' = invocations + 1
    /\ \E f \in Forms :
          LET service_uids == dict_get(f, "uids", <<>>)
              hidden_services == dict_get(f, "Hidden", EmptyMap)
          IN \E iteration \in Iterations(services(service_uids,
                                                   dependencies)) :
                /\ form' = f
                /\ settings' = as_settings(iteration, hidden_services)
                /\ got' = <<iteration, EmptyMap>>
    /\ UNCHANGED <<workbook, files, rejected, portal, deferred, refs, users,
                   log, uid, raised, self, pc, phase, row_nr, run, order,
                   events, reader, installed, returned, dependencies, query,
                   method_get>>

WidgetInit ==
    /\ workbook = EmptyMap
    /\ files = {}
    /\ rejected = {}
    /\ portal = [f \in Folders |-> <<>>]
    /\ deferred = <<>>
    /\ refs = {}
    /\ users = NoUsers
    /\ log = <<>>
    /\ uid = 3
    /\ raised = NoExc
    /\ self = NoSelf
    /\ pc = 1
    /\ phase = "form"
    /\ row_nr = 0
    /\ run = 1
    /\ order = ImporterOrder
    /\ events = <<>>
    /\ worksheet = <<>>
    /\ startrow = 0
    /\ headers = <<>>
    /\ yielded = <<>>
    /\ calls = 0
    /\ installed = <<0, 0, 0>>
    /\ invocations = 0
    /\ returned = <<>>
    /\ form = EmptyMap
    /\ dependencies \in ServiceDependencies
    /\ settings \in {<<>>, <<[uid |-> 3, hidden |-> TRUE]>>}
    /\ query = <<>>
    /\ got = NoObj
    /\ method_get = "child"

WidgetNext == Process_form

WidgetSpec == WidgetInit /\ [][WidgetNext]_vars

-----------------------------------------------------------------------------
(* Catalog queries *)

(* get_object is called on the catalog of the site. *)
Get_object ==
    /\ phase = "query"
    /\ \E portal_type \in {"AnalysisService", "Method"},
          title \in {"", "a", "b"},
          kwargs \in {EmptyMap, [getKeyword |-> "a"], [getKeyword |-> "b"]} :
          \* a caller that has no title has no keyword to look for either
          /\ title = "" => kwargs = EmptyMap
          /\ query' = [portal_type |-> portal_type, title |-> title,
                       kwargs |-> kwargs]
          /\ got' = get_object_kwargs(portal, portal_type, title, kwargs)
    /\ UNCHANGED <<workbook, files, rejected, portal, deferred, refs, users,
                   log, uid, raised, self, pc, phase, row_nr, run, order,
                   events, reader, installed, invocations, returned, form,
                   dependencies, settings, method_get>>

Titled(type, u, title, keyword) ==
    [portal_type |-> type, UID |-> u, title |-> title, Keyword |-> keyword]

(* Sites with up to two analysis services and up to two methods, their     *)
(* titles and keywords drawn from "a", "b" and "c".                        *)
Catalogs ==
    {[f \in Folders |->
        CASE f = "bika_analysisservices" ->
                [i \in 1..Len(ss) |->
                    Titled("AnalysisService", i, ss[i][1], ss[i][2])]
          [] f = "methods" ->
                [i \in 1..Len(ms) |-> Titled("Method", 2 + i, ms[i], ms[i])]
          [] OTHER -> <<>>] :
        ss \in SeqsUpTo({"a", "b", "c"} \X {"a", "b"}, 2),
        ms \in SeqsUpTo({"a", "b"}, 2)}

CatalogInit ==
    /\ workbook = EmptyMap
    /\ files = {}
    /\ rejected = {}
    /\ portal \in Catalogs
    /\ deferred = <<>>
    /\ refs = {}
    /\ users = NoUsers
    /\ log = <<>>
    /\ uid = 4
    /\ raised = NoExc
    /\ self = NoSelf
    /\ pc = 1
    /\ phase = "query"
    /\ row_nr = 0
    /\ run = 1
    /\ order = ImporterOrder
    /\ events = <<>>
    /\ worksheet = <<>>
    /\ startrow = 0
    /\ headers = <<>>
    /\ yielded = <<>>
    /\ calls = 0
    /\ NoAside

CatalogNext == Get_object

CatalogSpec == CatalogInit /\ [][CatalogNext]_vars

-----------------------------------------------------------------------------
(* Properties *)

(* The body of the loop of the importer of a sheet is about to run on the  *)
(* row CurrentRow.                                                         *)
RowStep(sheet) ==
    /\ phase = "rows"
    /\ Sheet = sheet
    /\ row_nr <= Len(workbook[sheet])

CurrentRow == workbook[Sheet][row_nr]

NextRow ==
    /\ raised' = NoExc
    /\ phase' = "rows"
    /\ pc' = pc
    /\ row_nr' = row_nr + 1

Position(sheet) == CHOOSE i \in 1..Len(ImporterOrder) : ImporterOrder[i] = sheet

(* C1: for every importer, a second run of the import against the same     *)
(* workbook and the site the first run left creates no object: no folder   *)
(* grows in any step of a run after the first.                             *)
C1_SecondRunCreatesNothing ==
    [][run >= 2 => \A f \in Folders : Len(portal'[f]) = Len(portal[f])]_vars

NamesWithClientID ==
    {workbook["Clients"][i].Name : i \in
        {j \in 1..Len(workbook["Clients"]) :
            /\ workbook["Clients"][j].Name # ""
            /\ workbook["Clients"][j].ClientID # ""}}

ClientsNamed(name) ==
    {i \in 1..Len(portal["clients"]) : portal["clients"][i].Name = name}

(* C2: the clients folder never holds two clients of one name, and once    *)
(* the Clients importer has gone through its sheet there is exactly one    *)
(* Client for each non-empty Name that a row gives with a ClientID,        *)
(* however many rows share the name.                                       *)
C2_OneClientPerName ==
    /\ \A name \in {"Acme", "Beta", ""} : Cardinality(ClientsNamed(name)) <= 1
    /\ "Clients" \in DOMAIN workbook /\ pc > Position("Clients")
        => \A name \in NamesWithClientID :
                Cardinality(ClientsNamed(name)) = 1

C2_Witness ==
    /\ "Clients" \in DOMAIN workbook
    /\ pc > Position("Clients")
    /\ run = 1
    /\ Len(workbook["Clients"]) >= 2
    /\ workbook["Clients"][1].Name = "Acme"
    /\ workbook["Clients"][2].Name = "Acme"
    /\ workbook["Clients"][1].ClientID # ""
    /\ workbook["Clients"][2].ClientID # ""
    /\ Cardinality(ClientsNamed("Acme")) = 1

(* The identifying column of the row is empty, as the claim names the      *)
(* columns: title, Name, Keyword or Firstname.                             *)
EmptyIdentifier(sheet, row) ==
    CASE sheet \in {"Lab Contacts", "Client Contacts"} -> row.Firstname = ""
      [] sheet = "Clients" -> row.Name = ""
      [] sheet = "Analysis Services" -> row.title = "" \/ row.Keyword = <<>>
      [] OTHER -> row.title = ""

(* The importers that test the identifying column before they do anything  *)
(* else with the row, and what they test.                                  *)
SkipsEmptyIdentifier(sheet, row) ==
    CASE sheet = "Lab Contacts" -> row.Firstname = ""
      [] sheet = "Client Contacts" -> row.Firstname = "" /\ row.Surname = ""
      [] sheet = "Clients" -> row.Name = ""
      [] sheet = "Analysis Services" -> row.title = "" \/ row.Keyword = <<>>
      [] sheet = "Instrument Certifications" ->
            row.title = "" \/ row.instrument = ""
      [] sheet = "Invoice Batches" -> FALSE
      [] OTHER -> row.title = ""

RowIsSkipped ==
    /\ NextRow
    /\ UNCHANGED <<portal, deferred, refs, users, log, uid>>

MissingField(row) ==
    IF row.title = "" THEN "InvoiceBatch has no Title"
    ELSE IF row.start = "" THEN "InvoiceBatch has no Start Date"
    ELSE IF row.end = "" THEN "InvoiceBatch has no End Date"
    ELSE ""

(* C4: an Invoice Batches row without title, start or end makes the        *)
(* importer raise an Exception whose message names the (first) missing     *)
(* field; __call__ lets it through, the run stops there, and no later row  *)
(* is ever processed.                                                      *)
C4_InvoiceBatchRaises ==
    [][/\ RowStep("Invoice Batches") /\ MissingField(CurrentRow) # ""
            => /\ raised' = Exc("Exception", MissingField(CurrentRow))
               /\ phase' = "aborted"
               /\ row_nr' = row_nr /\ pc' = pc
       /\ phase = "aborted" => UNCHANGED vars]_vars

C4_Witness ==
    /\ phase = "aborted"
    /\ Sheet = "Invoice Batches"
    /\ raised = Exc("Exception", "InvoiceBatch has no Start Date")
    /\ row_nr = 1
    /\ Len(workbook[Sheet]) = 2
    /\ MissingField(workbook[Sheet][2]) = ""

(* C5: calling an importer whose sheet the workbook lacks raises nothing,  *)
(* does not run Import, creates no object and defers nothing: it logs the  *)
(* absence and returns.                                                    *)
C5_MissingSheetOnlyLogs ==
    [][phase = "call" /\ Sheet \notin DOMAIN workbook
        => /\ raised' = NoExc
           /\ phase' \in {"call", "resolve"}
           /\ pc' = pc + 1
           /\ self'.interim_fields = EmptyMap
           /\ self'.service_interims = EmptyMap
           /\ UNCHANGED <<portal, deferred, refs, users, uid>>
           /\ log' = Append(log, [level |-> "info", msg |-> "No records found",
                                  sheet |-> Sheet])]_vars

C5_Witness ==
    /\ phase = "rows"
    /\ Sheet = "Clients"
    /\ run = 1
    /\ Len(log) = Position("Clients")
    /\ \A i \in 1..(Position("Clients") - 1) :
            log[i] = [level |-> "info", msg |-> "No records found",
                      sheet |-> ImporterOrder[i]]
    /\ \A f \in Folders : portal[f] = <<>>


(* The attachment columns of a sheet, each with the field it fills. *)
AttachmentColumns(sheet) ==
    CASE sheet = "Instruments" ->
            {<<"Photo", "Photo">>,
             <<"InstalationCertificate", "InstallationCertificate">>}
      [] sheet = "Instrument Certifications" -> {<<"report", "Document">>}
      [] sheet = "Lab Contacts" -> {<<"Signature", "Signature">>}
      [] OTHER -> {}

AttachmentFolder(sheet) ==
    CASE sheet = "Instruments" -> "bika_instruments"
      [] sheet = "Instrument Certifications" -> "certifications"
      [] sheet = "Lab Contacts" -> "bika_labcontacts"

(* The attachment columns of the row that name a file not on disk. *)
MissingAttachments(sheet, row) ==
    {cf \in AttachmentColumns(sheet) :
        /\ row[cf[1]] # ""
        /\ IF sheet = "Lab Contacts"
           THEN get_file_data(files, row[cf[1]]) = NoFile
           ELSE read_file(files, row[cf[1]]) = NoFile}

(* The dataset directory with the missing files of the row put there. *)
Restored(sheet, row) ==
    files \cup {<<row[cf[1]], "">> : cf \in MissingAttachments(sheet, row)}

Warnings(l) == Cardinality({i \in 1..Len(l) : l[i].level = "warning"})

GroupIds(row) == IF row.Groups = <<>> THEN <<"Analysts">> ELSE row.Groups

(* The row of a Lab Contacts sheet gets as far as addMember, and addMember *)
(* raises.                                                                 *)
LabAccountCreationRaises(row) ==
    /\ row.Firstname # ""
    /\ ~\E i \in 1..Len(portal["bika_labcontacts"]) :
            portal["bika_labcontacts"][i].Username = row.Username
    /\ row.Username # "" /\ row.EmailAddress # "" /\ row.Password # ""
    /\ addMember_raises(users, rejected, row.Username)

ClientAccountCreationRaises(row) ==
    LET client == getobj(portal["clients"], "Client", "getName",
                         row.Client_title)
    IN /\ Fullname(row.Firstname, row.Surname) # Fullname("", "")
       /\ Found(client)
       /\ ~Found(getobj(ChildrenOf(portal["contacts"], client.UID), "Contact",
                        "getFullname", Fullname(row.Firstname, row.Surname)))
       /\ row.Username # ""
       /\ addMember_raises(users, rejected, row.Username)

(* C7: when addMember raises for a row of the Lab Contacts or the Client   *)
(* Contacts sheet, nothing is raised out of the importer, the contact of   *)
(* the row is there, the groups, roles and local role of the row are       *)
(* assigned all the same, and the loop goes on with the next row.          *)
C7_AccountFailureKeepsRow ==
    [][/\ RowStep("Lab Contacts") /\ LabAccountCreationRaises(CurrentRow)
            => /\ NextRow
               /\ Len(portal'["bika_labcontacts"])
                    = Len(portal["bika_labcontacts"]) + 1
               /\ \A i \in 1..Len(GroupIds(CurrentRow)) :
                    GroupIds(CurrentRow)[i] \in ExistingGroups
                        => <<GroupIds(CurrentRow)[i], CurrentRow.Username>>
                                \in users'.groups
               /\ \A i \in 1..Len(CurrentRow.Roles) :
                    <<CurrentRow.Username, CurrentRow.Roles[i]>>
                        \in users'.roles
               /\ InSeq("LabManager", GroupIds(CurrentRow))
                    => <<"clients", CurrentRow.Username, "Owner">>
                            \in users'.local_roles
       /\ RowStep("Client Contacts")
          /\ ClientAccountCreationRaises(CurrentRow)
            => /\ NextRow
               /\ Len(portal'["contacts"]) = Len(portal["contacts"]) + 1
               /\ <<"Clients", CurrentRow.Username>> \in users'.groups
               /\ \E w \in 1..uid :
                    <<w, CurrentRow.Username, "Owner">>
                        \in users'.local_roles]_vars

IsPrefix(a, b) == Len(a) <= Len(b) /\ SubSeq(b, 1, Len(a)) = a

(* C8: while the importers run, the worklist of deferred relations only    *)
(* grows at its end and no reference is set; the references change only in *)
(* the step that follows the last importer.  A lab contact created with a  *)
(* Department_title adds exactly one record (source, field, catalog,       *)
(* query), a client contact one record per CC name in the order of the     *)
(* names, and the new object has no reference of its own yet.              *)
C8_DeferOnlyRecords ==
    [][/\ phase \in {"call", "rows"}
            => IsPrefix(deferred, deferred') /\ refs' = refs
       /\ refs' # refs
            => phase = "resolve" /\ pc = Len(ImporterOrder) + 1
       /\ RowStep("Lab Contacts")
          /\ Len(portal'["bika_labcontacts"]) > Len(portal["bika_labcontacts"])
            => /\ deferred' =
                    IF CurrentRow.Department_title = "" THEN deferred
                    ELSE Append(deferred,
                            [src_obj |-> uid + 1, src_field |-> "Department",
                             dest_catalog |-> "senaite_catalog_setup",
                             dest_query |->
                                [portal_type |-> "Department",
                                 title |-> CurrentRow.Department_title]])
               /\ \A r \in refs' : r.src_obj # uid + 1
       /\ RowStep("Client Contacts")
          /\ Len(portal'["contacts"]) > Len(portal["contacts"])
            => /\ deferred' = deferred \o
                    [k \in 1..Len(CurrentRow.CCContacts) |->
                        [src_obj |-> uid + 1, src_field |-> "CCContact",
                         dest_catalog |-> "portal_catalog",
                         dest_query |->
                            [portal_type |-> "Contact",
                             getFullname |-> CurrentRow.CCContacts[k]]]]
               /\ \A r \in refs' : r.src_obj # uid + 1]_vars

C8_Witness ==
    /\ phase = "rows"
    /\ Sheet = "Client Contacts"
    /\ run = 1
    /\ row_nr = 3
    /\ Len(portal["contacts"]) = 2
    /\ Len(deferred) = 4
    /\ deferred[1].src_obj # deferred[3].src_obj
    /\ refs = {}

ExactlyOne == {i \in 1..Len(deferred) : Len(Matches(portal, deferred[i])) = 1}

(* C9: the resolution pass sets, for each deferred relation, the field of  *)
(* the source object to the object its query matches when it matches       *)
(* exactly one; for each other relation it sets nothing and logs one       *)
(* warning; it raises nothing and goes through the whole worklist.         *)
C9_ResolvesExactMatches ==
    [][phase = "resolve"
        => /\ refs' = refs \cup
                {Reference(deferred[i], Matches(portal, deferred[i])[1]) :
                    i \in ExactlyOne}
           /\ \A i \in (1..Len(deferred)) \ ExactlyOne :
                \A k \in 1..Len(Matches(portal, deferred[i])) :
                    Reference(deferred[i], Matches(portal, deferred[i])[k])
                        \notin refs'
           /\ IsPrefix(log, log')
           /\ Len(log') = Len(log) + Len(deferred) - Cardinality(ExactlyOne)
           /\ \A k \in (Len(log) + 1)..Len(log') : log'[k].level = "warning"
           /\ raised' = NoExc
           /\ phase' = "done"
           /\ UNCHANGED <<portal, deferred>>]_vars

C9_Witness ==
    /\ phase = "done"
    /\ run = 1
    /\ \E i, j, k \in 1..Len(deferred) :
        /\ Len(Matches(portal, deferred[i])) = 1
        /\ Reference(deferred[i], Matches(portal, deferred[i])[1]) \in refs
        /\ Len(Matches(portal, deferred[j])) = 0
        /\ Len(Matches(portal, deferred[k])) = 2
        /\ \A r \in refs : r.src_obj = deferred[k].src_obj
                => r.dest \notin {Matches(portal, deferred[k])[1].UID,
                                  Matches(portal, deferred[k])[2].UID}
    /\ Cardinality(refs) = 1
    /\ Warnings(log) >= 3

(* The closing brackets of the tokens of a formula: a ']' with a '[' at    *)
(* least two places before it and no character of excluded in between.     *)
TokenEnds(s, excluded) ==
    {j \in 1..Len(s) :
        /\ s[j] = "]"
        /\ \E i \in 1..(j - 2) :
            s[i] = "[" /\ \A k \in (i + 1)..(j - 1) : s[k] \notin excluded}

(* The token that ends at j, from the leftmost '[' it can start at. *)
TokenAt(s, excluded, j) ==
    LET starts == {i \in 1..(j - 2) :
                    s[i] = "[" /\ \A k \in (i + 1)..(j - 1) :
                                        s[k] \notin excluded}
    IN SubSeq(s, (CHOOSE i \in starts : \A i2 \in starts : i <= i2) + 1,
              j - 1)

(* The tokens of a formula, in the order of the formula. *)
Tokens(s, excluded) ==
    [n \in 1..Cardinality(TokenEnds(s, excluded)) |->
        TokenAt(s, excluded,
                CHOOSE j \in TokenEnds(s, excluded) :
                    Cardinality({e \in TokenEnds(s, excluded) : e <= j}) = n)]

(* The keywords of the interim fields the workbook declares for a          *)
(* calculation.                                                            *)
InterimKeywords(title) ==
    {workbook["Calculation Interim Fields"][i].keyword : i \in
        {j \in 1..Len(workbook["Calculation Interim Fields"]) :
            workbook["Calculation Interim Fields"][j].Calculation_title
                = title}}

Lookups(tokens) ==
    [k \in 1..Len(tokens) |->
        [src_obj |-> uid + 1, src_field |-> "DependentServices",
         dest_catalog |-> "senaite_catalog_setup",
         dest_query |-> [portal_type |-> "AnalysisService",
                         getKeyword |-> tokens[k]]]]

CalculationCreated ==
    Len(portal'["bika_calculations"]) > Len(portal["bika_calculations"])

(* C10, as stated: the lookups deferred for a calculation are the          *)
(* bracket-delimited tokens of its Formula that are not interim keywords.  *)
C10_EveryBracketToken ==
    [][RowStep("Calculations") /\ CalculationCreated
        => deferred' = deferred \o
            Lookups(SelectSeq(Tokens(CurrentRow.Formula, {"]"}),
                        LAMBDA t : t \notin InterimKeywords(CurrentRow.title)))
      ]_vars

(* C10, amended: the lookups deferred for a calculation the importer       *)
(* creates are the occurrences, in the order of the Formula, of the        *)
(* bracket-delimited tokens that are not empty, contain no '.', '^' or     *)
(* ']', and are not keywords of the interim fields declared for the        *)
(* calculation: one DependentServices lookup for each, in the setup        *)
(* catalog, for the AnalysisService whose keyword is the token.  A row     *)
(* that creates no calculation defers nothing.                             *)
C10_DependentServices ==
    [][RowStep("Calculations")
        => IF CalculationCreated
           THEN deferred' = deferred \o
                Lookups(SelectSeq(Tokens(CurrentRow.Formula, {".", "^", "]"}),
                        LAMBDA t : t \notin InterimKeywords(CurrentRow.title)))
           ELSE deferred' = deferred]_vars

C10_Witness ==
    /\ phase = "rows"
    /\ Sheet = "Calculations"
    /\ run = 1
    /\ row_nr = 2
    /\ workbook[Sheet][1].Formula = <<"[", "A", "]", "+", "[", "B", "]">>
    /\ InterimKeywords("Calc") = {<<"A">>}
    /\ Len(portal["bika_calculations"]) = 1
    /\ Len(deferred) = 1
    /\ deferred[1].dest_query =
            [portal_type |-> "AnalysisService", getKeyword |-> <<"B">>]

Occurrences(s, x) == Cardinality({i \in 1..Len(s) : s[i] = x})

(* A row of the relation sheet pairs the service with the title. *)
Paired(sheet, service_title, column, title) ==
    \E i \in 1..Len(workbook[sheet]) :
        /\ workbook[sheet][i].Service_title = service_title
        /\ workbook[sheet][i][column] = title

ServiceCreated ==
    Len(portal'["bika_analysisservices"]) > Len(portal["bika_analysisservices"])

NewService ==
    portal'["bika_analysisservices"][Len(portal'["bika_analysisservices"])]

(* C11: when an Analysis Services row names a default method (default      *)
(* instrument) that exists and the "AnalysisService Methods"               *)
(* ("AnalysisService Instruments") sheet has no row pairing it with the    *)
(* service, the Methods (Instruments) list of the service created holds    *)
(* that default exactly once; and InstrumentEntryOfResults is true exactly *)
(* when the Instruments list of the service is not empty.                  *)
C11_DefaultsSynthesized ==
    [][/\ RowStep("Analysis Services")
       /\ ServiceCreated
       /\ {"AnalysisService Methods", "AnalysisService Instruments"}
            \subseteq DOMAIN workbook
       => LET row == CurrentRow
              method == getobj(portal["methods"], "Method", "Title",
                               row.DefaultMethod_title)
              instrument == getobj(portal["bika_instruments"], "Instrument",
                                   "Title", row.DefaultInstrument_title)
          IN /\ NextRow
             /\ Found(method)
                /\ ~Paired("AnalysisService Methods", row.title,
                           "Method_title", row.DefaultMethod_title)
                    => Occurrences(NewService.Methods, method.UID) = 1
             /\ Found(instrument)
                /\ ~Paired("AnalysisService Instruments", row.title,
                           "Instrument_title", row.DefaultInstrument_title)
                    => Occurrences(NewService.Instruments, instrument.UID) = 1
             /\ NewService.InstrumentEntryOfResults
                    = (NewService.Instruments # <<>>)]_vars

C11_Witness ==
    /\ phase = "rows"
    /\ Sheet = "Analysis Services"
    /\ run = 1
    /\ row_nr = 2
    /\ workbook[Sheet][1].DefaultMethod_title = "M1"
    /\ workbook[Sheet][1].DefaultInstrument_title = "I1"
    /\ workbook["AnalysisService Methods"]
            = <<Relation("Argon", "Method_title", "M2")>>
    /\ workbook["AnalysisService Instruments"] = <<>>
    /\ Len(portal["bika_analysisservices"]) = 1
    /\ LET service == portal["bika_analysisservices"][1]
           M1 == getobj(portal["methods"], "Method", "Title", "M1")
           M2 == getobj(portal["methods"], "Method", "Title", "M2")
           I1 == getobj(portal["bika_instruments"], "Instrument", "Title", "I1")
       IN /\ Found(M1) /\ Found(M2) /\ Found(I1)
          /\ service.Methods = <<M1.UID, M2.UID>>
          /\ service.Method = M1.UID
          /\ service.Instruments = <<I1.UID>>
          /\ service.InstrumentEntryOfResults

(* The titles the Methods sheet of the workbook defines. *)
MethodsDefined ==
    {workbook["Methods"][i].title : i \in 1..Len(workbook["Methods"])} \ {""}

(* The service a row of the Analysis Services sheet stands for. *)
ServiceOf(row) ==
    getobj(portal["bika_analysisservices"], "AnalysisService", "getKeyword",
           row.Keyword)

(* C12: when the Analysis Services importer runs before the Methods        *)
(* importer, the run does not fail, and when it has finished, every        *)
(* service whose row names a DefaultMethod_title that the Methods sheet    *)
(* defines has that method as its default method (set by the importer or   *)
(* by the resolution of a deferred relation).                              *)
C12_DefaultMethodAttached ==
    order = ServicesFirst
    /\ {"Analysis Services", "Methods", "Instrument Methods",
        "AnalysisService Methods", "AnalysisService Instruments"}
            \subseteq DOMAIN workbook
    => /\ phase # "aborted"
       /\ phase = "done"
            => \A i \in 1..Len(workbook["Analysis Services"]) :
                LET row == workbook["Analysis Services"][i]
                    service == ServiceOf(row)
                    method == getobj(portal["methods"], "Method", "Title",
                                     row.DefaultMethod_title)
                IN row.DefaultMethod_title \in MethodsDefined
                    => /\ Found(service)
                       /\ Found(method)
                       /\ \/ service.Method = method.UID
                          \/ [src_obj |-> service.UID, src_field |-> "Method",
                              dest |-> method.UID] \in refs

(* The calls of write_bucket among the events from the n-th on. *)
WriteBacks(e, n) ==
    Cardinality({i \in (n + 1)..Len(e) : e[i].type = "write_bucket"})

(* C13: load_service_uncertainties writes the bucket back at most          *)
(* floor(N / 500) + 1 times for a sheet of N rows.                         *)
C13_WriteBacksBounded ==
    [][/\ phase = "rows" /\ Sheet = "Analysis Services"
       /\ row_nr > Len(workbook[Sheet])
       /\ "Analysis Service Uncertainties" \in DOMAIN workbook
       => WriteBacks(events', Len(events))
            <= Len(workbook["Analysis Service Uncertainties"]) \div BucketFlush
                + 1]_vars

(* The truth value the boolean rule gives a cell: true for the text "true" *)
(* in any letter case, for the number 1 and for the text "on", false for   *)
(* every other value.                                                      *)
StatedBool(value) ==
    \/ IsText(value)
        /\ lower(value).value \in {<<"t", "r", "u", "e">>, <<"o", "n">>, <<"1">>}
    \/ value = IntValue(1)
    \/ value = FloatValue(10)
    \/ value = BoolValue(TRUE)

ContainerCreated ==
    Len(portal'["sample_containers"]) > Len(portal["sample_containers"])

NewContainer ==
    portal'["sample_containers"][Len(portal'["sample_containers"])]

(* C14: the boolean a row's cell is converted to is true for the text      *)
(* "true" in any letter case, for 1 and for "on", and false for an empty,  *)
(* an absent or any other value: the PrePreserved of a container and the   *)
(* Separate of an analysis service are the stated values of their cells.   *)
C14_BooleanCoercion ==
    [][/\ (/\ RowStep("Containers")
           /\ ContainerCreated
           /\ "PrePreserved" \in DOMAIN CurrentRow
           => NewContainer.PrePreserved = StatedBool(CurrentRow.PrePreserved))
       /\ (/\ RowStep("Analysis Services")
           /\ ServiceCreated
           => NewService.Separate
                = StatedBool(Get(CurrentRow, "Separate", None)))]_vars

(* The number of the last sheet row a call of get_rows does not yield. *)
LastSkipped == IF startrow < 1 THEN 1 ELSE startrow

(* The cells of the sheet row the i-th yielded mapping comes from. *)
SourceRow(i) == worksheet[LastSkipped + i]

(* The column a key of a yielded mapping takes its value from. *)
ColumnOf(k) ==
    CHOOSE j \in 1..Len(worksheet[1]) :
        worksheet[1][j] = k /\ \A l \in (j + 1)..Len(worksheet[1]) :
                                    worksheet[1][l] # k

ColumnKeys(i) == DOMAIN yielded[i] \ AddressTypes

Stripped(s) ==
    s = <<>> \/ (s[1] \notin Whitespace /\ s[Len(s)] \notin Whitespace)

(* t is s without some white space at its two ends. *)
Trimmed(s, t) ==
    \E a \in 1..(Len(s) + 1), b \in 0..Len(s) :
        /\ t = SubSeq(s, a, b)
        /\ \A i \in (1..(a - 1)) \cup ((b + 1)..Len(s)) : s[i] \in Whitespace

(* C15: the first row of the sheet gives the keys; get_rows(startrow)      *)
(* yields one mapping per later row whose number is greater than startrow, *)
(* in sheet order; the header row and the rows numbered up to startrow are *)
(* never yielded; every call starts again at the top of the sheet.         *)
C15_RowsAfterStart ==
    phase \in {"reading", "exhausted"}
    => /\ row_nr >= 1 => headers = worksheet[1]
       /\ Len(yielded) = (IF row_nr > LastSkipped THEN row_nr - LastSkipped
                          ELSE 0)
       /\ phase = "exhausted" => row_nr = Len(worksheet)
       /\ \A i \in 1..Len(yielded) :
            /\ ColumnKeys(i)
                    = {worksheet[1][j] : j \in 1..Len(worksheet[1])}
            /\ \A k \in ColumnKeys(i) :
                    yielded[i][k] = cell_value(SourceRow(i)[ColumnOf(k)])

C15_Witness ==
    /\ phase = "exhausted"
    /\ calls = 2
    /\ startrow = 3
    /\ Len(worksheet) = 5
    /\ worksheet[1] = <<"title", "Physical_City">>
    /\ worksheet[4] = <<StrValue(<<"a">>), None>>
    /\ Len(yielded) = 2
    /\ yielded[1]["title"] = StrValue(<<"a">>)
    /\ yielded[2]["title"] = StrValue(<<"z">>)

(* C16 as stated: every cell value of a yielded mapping is text, '' for an *)
(* absent cell, without leading or trailing space, tab, newline or         *)
(* carriage return.                                                        *)
C16_EveryValueIsText ==
    phase \in {"reading", "exhausted"}
    => \A i \in 1..Len(yielded) : \A k \in ColumnKeys(i) :
            /\ yielded[i][k].type = "str"
            /\ Stripped(yielded[i][k].value)

(* C16, amended: a cell that is absent is yielded as '', a cell that is    *)
(* text as that text (a str) without the space, tab, newline and carriage  *)
(* return characters at its two ends; a cell that is a number or a boolean *)
(* is yielded as it is, not as text.                                       *)
C16_TextIsStripped ==
    phase \in {"reading", "exhausted"}
    => \A i \in 1..Len(yielded) : \A k \in ColumnKeys(i) :
            LET cell == SourceRow(i)[ColumnOf(k)]
                value == yielded[i][k]
            IN /\ cell.type = "NoneType" => value = StrValue(<<>>)
               /\ IsText(cell)
                    => /\ value.type = "str"
                       /\ Stripped(value.value)
                       /\ Trimmed(cell.value, value.value)
               /\ cell.type \in {"int", "float", "bool"} => value = cell

C16_Witness ==
    /\ phase = "exhausted"
    /\ startrow = 3
    /\ Len(worksheet) = 4
    /\ worksheet[1] = <<"title", "Physical_City">>
    /\ worksheet[4] = <<IntValue(7), StrValue(<<"\n", "a", " ", "b", "\r">>)>>
    /\ Len(yielded) = 1
    /\ yielded[1]["title"] = IntValue(7)
    /\ yielded[1]["Physical_City"] = StrValue(<<"a", " ", "b">>)

(* C17 as stated: every yielded mapping has the nested mappings Physical,  *)
(* Postal and Billing, each with the six sub-keys, '' where the sheet has  *)
(* no column for the sub-key.                                              *)
C17_AddressesAlwaysFilled ==
    phase \in {"reading", "exhausted"}
    => \A i \in 1..Len(yielded) :
            /\ AddressTypes \subseteq DOMAIN yielded[i]
            /\ \A t \in AddressTypes :
                /\ DOMAIN yielded[i][t] = AddressKeys
                /\ \A key \in AddressKeys :
                        (t \o "_" \o key) \notin DOMAIN yielded[i]
                            => yielded[i][t][key] = StrValue(<<>>)

(* C17, amended: every yielded mapping has the nested mappings Physical,   *)
(* Postal and Billing; the nested mapping of a prefix has the six sub-keys *)
(* when the sheet has the column <prefix>_Address (each the text of the    *)
(* column <prefix>_<key>, '' where the sheet has no such column) and is    *)
(* empty when the sheet has no such column.                                *)
C17_AddressesWithAddressColumn ==
    phase \in {"reading", "exhausted"}
    => \A i \in 1..Len(yielded) :
            /\ AddressTypes \subseteq DOMAIN yielded[i]
            /\ \A t \in AddressTypes :
                IF (t \o "_Address") \in DOMAIN yielded[i]
                THEN /\ DOMAIN yielded[i][t] = AddressKeys
                     /\ \A key \in AddressKeys :
                        /\ yielded[i][t][key].type = "str"
                        /\ (t \o "_" \o key) \notin DOMAIN yielded[i]
                            => yielded[i][t][key] = StrValue(<<>>)
                        /\ (t \o "_" \o key) \in DOMAIN yielded[i]
                            /\ yielded[i][t \o "_" \o key].type = "str"
                            => yielded[i][t][key] = yielded[i][t \o "_" \o key]
                ELSE DOMAIN yielded[i][t] = {}

C17_Witness ==
    /\ phase = "exhausted"
    /\ startrow = 3
    /\ Len(worksheet) = 4
    /\ worksheet[1] = <<"Postal_Address", "Postal_Zip">>
    /\ worksheet[4] = <<StrValue(<<" ", "b">>), IntValue(0 - 12)>>
    /\ Len(yielded) = 1
    /\ yielded[1]["Postal"]["Address"] = StrValue(<<"b">>)
    /\ yielded[1]["Postal"]["Zip"] = StrValue(<<"-", "1", "2">>)
    /\ yielded[1]["Postal"]["City"] = StrValue(<<>>)
    /\ DOMAIN yielded[1]["Physical"] = {}

Savepoints(e) == SelectSeq(e, LAMBDA x : x.type = "savepoint")

(* C18: a call of get_rows takes one savepoint for every row it reads      *)
(* whose number is a multiple of 1000, before that row is yielded, so      *)
(* floor(N / 1000) savepoints for a sheet of N rows; the savepoint is not  *)
(* part of the row's data.                                                 *)
C18_SavepointEveryThousand ==
    phase \in {"reading", "exhausted"}
    => /\ Len(Savepoints(events)) = row_nr \div SavepointEvery
       /\ \A n \in 1..Len(Savepoints(events)) :
            Savepoints(events)[n].obj = n * SavepointEvery
       /\ \A i \in 1..Len(events) :
            events[i].type = "yield" /\ events[i].obj % SavepointEvery = 0
                => /\ i > 1
                   /\ events[i - 1] = [type |-> "savepoint",
                                        obj |-> events[i].obj]
       /\ phase = "exhausted"
            => Len(Savepoints(events)) = Len(worksheet) \div SavepointEvery
       /\ \A i \in 1..Len(yielded) :
            (LastSkipped + i) % SavepointEvery = 0
                => yielded[i]["title"] = SourceRow(i)[1]

C18_Witness ==
    /\ phase = "exhausted"
    /\ startrow = SavepointEvery - 1
    /\ Len(worksheet) = SavepointEvery
    /\ Len(yielded) = 1
    /\ yielded[1]["title"] = worksheet[SavepointEvery][1]
    /\ events = <<[type |-> "savepoint", obj |-> SavepointEvery],
                  [type |-> "yield", obj |-> SavepointEvery]>>

(* The calls an importer step makes on the collaborators. *)
NewEvents == SubSeq(events', Len(events) + 1, Len(events'))

(* The object is notified exactly once in the step, after every           *)
(* assignment the step makes on it.                                       *)
NotifiedLast(o) ==
    LET e == NewEvents
        notified == {i \in 1..Len(e) : e[i] = [type |-> "notify", obj |-> o]}
    IN /\ Cardinality(notified) = 1
       /\ \A i \in 1..Len(e) :
            e[i].obj = o /\ e[i].type \in {"create", "edit"}
                => \A j \in notified : i < j

(* C19: for every object the importer creates for a row, the lifecycle    *)
(* notification is fired exactly once, after the last field assignment    *)
(* the importer makes on the object for that row and before the next row  *)
(* is processed.                                                          *)
C19_NotifiedAfterAssignment ==
    [][phase = "rows" => \A o \in (uid + 1)..uid' : NotifiedLast(o)]_vars

(* C20: a row of the Analysis Profiles or of the Worksheet Templates sheet *)
(* whose title has no child record on a detail sheet does not raise out of *)
(* Import, and the rows that follow are processed: the step of the row     *)
(* raises nothing and goes on to the next row.                             *)
C20_UnresolvedIsSoft ==
    [][RowStep("Analysis Profiles") \/ RowStep("Worksheet Templates")
        => NextRow]_vars

ImportSteps(e) == SelectSeq(e, LAMBDA x : x.type = "runImportStepFromProfile")

Brains == contentFilter(portal, query.portal_type, query.title, query.kwargs)

CalculationOf(u) ==
    portal["bika_calculations"][IndexOf(portal["bika_calculations"], u)]

(* The calculations of the m-th method of a service. *)
CalculationsOf(service, m) ==
    portal["methods"][IndexOf(portal["methods"], service.Methods[m])]
        .Calculations

(* The places <<m, c>> of a service where the c-th calculation of its m-th *)
(* method is titled "Correction".                                          *)
Corrections(service) ==
    {mc \in (1..Len(service.Methods)) \X (1..3) :
        /\ mc[2] <= Len(CalculationsOf(service, mc[1]))
        /\ CalculationOf(CalculationsOf(service, mc[1])[mc[2]]).title
                = "Correction"}

(* The first of these places, methods in order and the calculations of a   *)
(* method in order.                                                        *)
FirstCorrection(service) ==
    CHOOSE mc \in Corrections(service) :
        \A other \in Corrections(service) :
            \/ mc[1] < other[1]
            \/ mc[1] = other[1] /\ mc[2] <= other[2]

(* The notifications of this step about the object with the UID u. *)
Edited(u) ==
    SelectSeq(NewEvents,
              LAMBDA e : e.type = "ObjectEditedEvent" /\ e.obj = u)

Migrated ==
    \E i \in 1..Len(log) :
        log[i].msg = "Migrate AnalysisService Calculation field [DONE]"

(* C30: the migration sets the Calculation of every service that has a     *)
(* "Correction" calculation among its methods to the first one, methods in *)
(* order and each method's calculations in order, and notifies the edit    *)
(* once, after setting it; a service without one is neither modified nor   *)
(* notified; a run after a completed run changes no Calculation.           *)
C30_FirstCorrection ==
    [][Migrate =>
        /\ \A k \in 1..Len(portal["bika_analysisservices"]) :
              LET obj == portal["bika_analysisservices"][k]
                  new == portal'["bika_analysisservices"][k]
              IN IF Corrections(obj) # {}
                 THEN /\ new = [obj EXCEPT !.Calculation =
                                  CalculationsOf(obj, FirstCorrection(obj)[1])
                                      [FirstCorrection(obj)[2]]]
                      /\ Len(Edited(obj.UID)) = 1
                      /\ \E i \in 2..Len(NewEvents) :
                            /\ NewEvents[i - 1] = [type |-> "setCalculation",
                                                   obj |-> obj.UID]
                            /\ NewEvents[i] = [type |-> "ObjectEditedEvent",
                                               obj |-> obj.UID]
                 ELSE /\ new = obj
                      /\ \A i \in 1..Len(NewEvents) :
                            NewEvents[i].obj # obj.UID
        /\ Migrated => \A k \in 1..Len(portal["bika_analysisservices"]) :
                          portal'["bika_analysisservices"][k].Calculation
                            = portal["bika_analysisservices"][k].Calculation
        /\ \A f \in DOMAIN portal :
              f # "bika_analysisservices" => portal'[f] = portal[f]]_vars

C30_Witness ==
    /\ phase = "upgrade"
    /\ invocations = 2
    /\ returned = <<>>
    /\ portal["methods"] = <<Meth(4, <<2, 3, 1>>), Meth(5, <<2>>)>>
    /\ portal["bika_analysisservices"]
            = <<Serv(6, <<5, 4>>, 3), Serv(7, <<5>>, 0)>>
    /\ events = <<[type |-> "setCalculation", obj |-> 6],
                  [type |-> "ObjectEditedEvent", obj |-> 6],
                  [type |-> "setCalculation", obj |-> 6],
                  [type |-> "ObjectEditedEvent", obj |-> 6]>>

(* C23: process_form returns the UIDs of the selected services and of      *)
(* their dependencies, each once, and stores exactly one settings record   *)
(* for each returned UID, hidden exactly when the Hidden entry of the form *)
(* for that UID is "on" (which is what get_configuration then reads).      *)
C23_SettingsOfForm ==
    (phase = "form" /\ invocations > 0) =>
        LET service_uids == IF "uids" \in DOMAIN form THEN form.uids
                            ELSE <<>>
            uids == got[1]
            selected == {service_uids[i] : i \in 1..Len(service_uids)}
            depended == {u \in 1..3 :
                            \E s \in selected, i \in 1..3 :
                                /\ i <= Len(dependencies[s])
                                /\ dependencies[s][i] = u}
            on == {u \in 1..3 : /\ "Hidden" \in DOMAIN form
                                /\ u \in DOMAIN form.Hidden
                                /\ form.Hidden[u] = "on"}
        IN /\ got[2] = EmptyMap
           /\ {uids[i] : i \in 1..Len(uids)} = selected \cup depended
           /\ \A i, j \in 1..Len(uids) : uids[i] = uids[j] => i = j
           /\ \A i \in 1..Len(uids) :
                 \E j \in 1..Len(settings) :
                    /\ settings[j].uid = uids[i]
                    /\ settings[j].hidden = (uids[i] \in on)
                    /\ \A k \in 1..Len(settings) :
                          settings[k].uid = uids[i] => k = j
           /\ Len(settings) = Len(uids)
           /\ \A u \in DOMAIN get_configuration(uids, settings) :
                 get_configuration(uids, settings)[u].hidden = (u \in on)

C23_Witness ==
    /\ phase = "form"
    /\ invocations = 2
    /\ dependencies[2] = <<1, 3>>
    /\ form = [uids |-> <<2, 2>>,
               Hidden |-> [x \in {1, 3} |-> IF x = 1 THEN "off" ELSE "on"]]
    /\ got = <<(<<3, 2, 1>>), EmptyMap>>
    /\ settings = <<[uid |-> 3, hidden |-> TRUE],
                    [uid |-> 2, hidden |-> FALSE],
                    [uid |-> 1, hidden |-> FALSE]>>

(* C24: a new method whose MethodID is the non-empty MethodID of an        *)
(* existing method has its MethodID cleared and the import continues: the  *)
(* duplicate check raises nothing, and no two methods share a non-empty    *)
(* MethodID.                                                               *)
C24_DuplicateMethodIDCleared ==
    /\ raised.type # "AttributeError"
    /\ \A i, j \in 1..Len(portal["methods"]) :
          (i # j /\ portal["methods"][i].MethodID # "")
              => portal["methods"][i].MethodID # portal["methods"][j].MethodID

C26_NoBatchOnRaise ==
    [][(RowStep("Invoice Batches") /\ raised'.type = "Exception")
        => portal'["invoices"] = portal["invoices"]]_vars

(* The rest of Import, after the loop over the rows of the sheet. *)
FinishStep(sheet) ==
    /\ phase = "rows"
    /\ Sheet = sheet
    /\ row_nr > Len(workbook[sheet])

(* The second pass leaves the folder as it is but for the field of objects *)
(* that had none, which it sets to an object of the other folder that a    *)
(* row of the sheet names (by the key given) for the title of the object.  *)
OnlySetsMissing(folder, field, sheet, column, other, key) ==
    /\ Len(portal'[folder]) = Len(portal[folder])
    /\ \A k \in 1..Len(portal[folder]) :
          LET obj == portal[folder][k]
              new == portal'[folder][k]
          IN /\ obj[field] # 0 => new = obj
             /\ new # obj =>
                  /\ new = [obj EXCEPT ![field] = new[field]]
                  /\ \E i \in 1..Len(workbook[sheet]) :
                        /\ workbook[sheet][i].title = obj.title
                        /\ \E j \in 1..Len(portal[other]) :
                              /\ portal[other][j].UID = new[field]
                              /\ portal[other][j][key]
                                    = workbook[sheet][i][column]
    /\ \A f \in DOMAIN portal : f # folder => portal'[f] = portal[f]

(* C27: the second passes never overwrite: the Calculations importer sets  *)
(* the calculation of a method only when the method exists and has none,   *)
(* and the Lab Contacts importer sets the manager of a department only     *)
(* when the department exists and has none.                                *)
C27_SecondPassesFillOnly ==
    [][/\ (FinishStep("Calculations") /\ "Methods" \in DOMAIN workbook)
            => OnlySetsMissing("methods", "Calculation", "Methods",
                               "Calculation_title", "bika_calculations",
                               "title")
       /\ (FinishStep("Lab Contacts")
           /\ "Lab Departments" \in DOMAIN workbook)
            => OnlySetsMissing("bika_departments", "Manager",
                               "Lab Departments", "LabContact_Username",
                               "bika_labcontacts", "Username")]_vars

C27_Witness ==
    /\ phase = "done"
    /\ run = 1
    /\ order = DetailsFirst
    /\ "Methods" \in DOMAIN workbook
    /\ workbook["Methods"]
            = <<MethodOf("M1", "Calc"), MethodOf("M1", "Other")>>
    /\ workbook["Lab Departments"]
            = <<Department("Chem", "ann"), Department("Chem", "bob")>>
    /\ Len(portal["methods"]) = 1
    /\ portal["methods"][1].Calculation
            = getobj(portal["bika_calculations"], "Calculation", "Title",
                     "Calc").UID
    /\ portal["methods"][1].Calculation # 0
    /\ Len(portal["bika_departments"]) = 1
    /\ portal["bika_departments"][1].Manager
            = getobj(portal["bika_labcontacts"], "LabContact", "getUsername",
                     "ann").UID
    /\ portal["bika_departments"][1].Manager # 0

(* The uncertainties the sheet gives a service: one for each row that      *)
(* names it by its title, in the order of the sheet.                       *)
UncertaintiesOf(service) ==
    LET named == SelectSeq(workbook["Analysis Service Uncertainties"],
                    LAMBDA row :
                        getobj(portal["bika_analysisservices"],
                               "AnalysisService", "Title",
                               row.Service_title).UID = service.UID)
    IN [i \in 1..Len(named) |->
            [intercept_min |-> named[i]["Range Min"],
             intercept_max |-> named[i]["Range Max"],
             errorvalue |-> named[i]["Uncertainty Value"]]]

(* C28: after load_service_uncertainties the uncertainties of every        *)
(* service are the list it had followed by one entry for each row of the   *)
(* sheet that names it, in the order of the sheet: no entry is lost or     *)
(* written twice, whatever the number of write-backs, and a row that names *)
(* an unknown service adds nothing.                                        *)
C28_UncertaintiesAppended ==
    [][(FinishStep("Analysis Services")
        /\ {"AnalysisService ResultOptions", "Analysis Service Uncertainties"}
                \subseteq DOMAIN workbook)
        => /\ Len(portal'["bika_analysisservices"])
                = Len(portal["bika_analysisservices"])
           /\ \A k \in 1..Len(portal["bika_analysisservices"]) :
                 LET service == portal["bika_analysisservices"][k]
                 IN portal'["bika_analysisservices"][k].Uncertainties
                        = service.Uncertainties \o UncertaintiesOf(service)]_vars

C28_Witness ==
    /\ phase = "done"
    /\ run = 1
    /\ "Analysis Service Uncertainties" \in DOMAIN workbook
    /\ Len(workbook["Analysis Service Uncertainties"]) = MaxUncertainties
    /\ workbook["Analysis Service Uncertainties"][2].Service_title = "Neon"
    /\ WriteBacks(events, 0) > 1
    /\ Len(portal["bika_analysisservices"]) = 2
    /\ Len(portal["bika_analysisservices"][1].Uncertainties)
            = (MaxUncertainties + 1) \div 2
    /\ Len(portal["bika_analysisservices"][2].Uncertainties)
            = MaxUncertainties \div 2
    /\ portal["bika_analysisservices"][2].Uncertainties[2].errorvalue = "2"

(* The result options the sheet gives a service: one for each row that     *)
(* names it by its title, in the order of the sheet.                       *)
ResultOptionsOf(service) ==
    LET named == SelectSeq(workbook["AnalysisService ResultOptions"],
                    LAMBDA row :
                        getobj(portal["bika_analysisservices"],
                               "AnalysisService", "Title",
                               row.Service_title).UID = service.UID)
    IN [i \in 1..Len(named) |->
            [ResultValue |-> named[i].ResultValue,
             ResultText |-> named[i].ResultText]]

(* C29: load_result_options attaches a result option for every row that   *)
(* names an existing service, whatever the rows before it contain; a row   *)
(* that names an unknown service is skipped and the rows after it are      *)
(* still processed.                                                        *)
C29_EveryOptionAttached ==
    [][(FinishStep("Analysis Services")
        /\ "AnalysisService ResultOptions" \in DOMAIN workbook)
        => \A k \in 1..Len(portal["bika_analysisservices"]) :
             LET service == portal["bika_analysisservices"][k]
             IN portal'["bika_analysisservices"][k].ResultOptions
                    = service.ResultOptions \o ResultOptionsOf(service)]_vars

=============================================================================
